---- MODULE Spec2Model ----
(***************************************************************************)
(* Model of the Markdown post-processing pipeline of the editor: the       *)
(* table-context escaping pass (extensions/gfmCompliantEscaping.js), the   *)
(* disallowed-tag filter (extensions/tagfilter.js), the text-processing    *)
(* plugins that wrap a serializer's serialize method, and                  *)
(* createMarkdownSystem (markdownSystem.js).                               *)
(*                                                                         *)
(* A text is a sequence of one-character strings.  Regular expressions of  *)
(* the source are modelled by what they match: a literal replace scans     *)
(* left to right for non-overlapping matches, and a pattern test computes  *)
(* the set of positions the pattern can reach.                             *)
(***************************************************************************)
EXTENDS Integers, Sequences, FiniteSets, TLC

VARIABLES
    markdown,       \* the text handed to the pass under test
    unescapeChars,  \* the unescapeChars array the escaping plugin was built with
    processed,      \* result of the first run of the pass
    reprocessed,    \* result of running the pass on its own output
    stage,          \* "input" | "once" | "twice"
    serializers,    \* the mdSerializer object of each markdown system
    nodeTables,     \* the node-serializer tables: the library's and each system's
    requested,      \* options.textProcessing each system was created with
    applied,        \* the plugins whose enhanceSerializer was called, per system
    lastSerialize,  \* the latest serialize call and what it returned
    lineParts,      \* the pieces of the line handed to getHtmlBlockStartType
    startType,      \* what getHtmlBlockStartType returned for that line
    scanLines,      \* the lines array handed to findHtmlBlocks
    scanI,          \* findHtmlBlocks: the loop index i (0-based)
    blocks,         \* findHtmlBlocks: the blocks array
    htmlStage,      \* "input" | "classified" | "scanning" | "done"
    validation,     \* what the table validators returned for the text
    patternPlugin,  \* the pattern plugin under construction and what its factory did
    patternCall,    \* the latest call of that plugin's serialize wrapper
    edMode,         \* the mode of the live view: "none" | "markdown" | "prosemirror"
    textarea,       \* the value of the textarea element (the PM view's mirror)
    edDoc,          \* view.state.doc of the ProseMirror view
    syncScheduled,  \* a mirror sync waits for the next animation frame
    lastSwitch,     \* the latest switchTo call that changed the mode
    safeCall,       \* the latest safeSerialize call
    parseLines,     \* the lines of the markdown handed to parseMarkdownNodes
    parseI,         \* parseMarkdownNodes: the loop index i (0-based)
    nodes,          \* parseMarkdownNodes: the nodes array
    parseStage,     \* "input" | "parsing" | "done"
    collapseRaw,    \* the pieces of what originalSerialize returned to the soft-break wrapper
    collapseResult, \* the wrapper's variable result
    collapsePrev,   \* the wrapper's variable prevResult
    collapseStage   \* "input" | "looping" | "done"

textVars == <<markdown, unescapeChars, processed, reprocessed, stage>>

serVars == <<serializers, nodeTables, requested, applied, lastSerialize>>

htmlVars == <<lineParts, startType, scanLines, scanI, blocks, htmlStage>>

validVars == <<validation>>

patVars == <<patternPlugin, patternCall>>

editVars == <<edMode, textarea, edDoc, syncScheduled, lastSwitch, safeCall>>

parseVars == <<parseLines, parseI, nodes, parseStage>>

loopVars == <<collapseRaw, collapseResult, collapsePrev, collapseStage>>

moreVars == <<patVars, editVars, parseVars, loopVars>>

baseVars == <<textVars, serVars, htmlVars, validVars>>

vars == <<textVars, serVars, htmlVars, validVars, moreVars>>

(***************************************************************************)
(* Bounds of the explored inputs.                                          *)
(***************************************************************************)
MaxTextLen == 10

MaxCalls == 3

MaxLineParts == 4

MaxHtmlLines == 3

MaxReplacements == 2

MaxPatternLines == 2

MaxSeparatorLen == 7

MaxParseLines == 3

MaxCollapseParts == 6

----------------------------------------------------------------------------
(***************************************************************************)
(* String helpers (String.prototype.trim, split, join, includes, replace). *)
(***************************************************************************)
IsSpace(c) == c \in {" ", "\t", "\n", "\r"}

RECURSIVE TrimStart(_)
TrimStart(s) ==
    IF s # <<>> /\ IsSpace(Head(s)) THEN TrimStart(Tail(s)) ELSE s

RECURSIVE TrimEnd(_)
TrimEnd(s) ==
    IF s # <<>> /\ IsSpace(s[Len(s)]) THEN TrimEnd(SubSeq(s, 1, Len(s) - 1)) ELSE s

Trim(s) == TrimEnd(TrimStart(s))

Includes(s, c) == \E i \in 1..Len(s) : s[i] = c

\* s.split('\n'): always at least one element, the empty text gives [""]
RECURSIVE SplitFrom(_, _, _)
SplitFrom(s, i, cur) ==
    IF i > Len(s) THEN <<cur>>
    ELSE IF s[i] = "\n" THEN <<cur>> \o SplitFrom(s, i + 1, <<>>)
    ELSE SplitFrom(s, i + 1, Append(cur, s[i]))

SplitLines(s) == SplitFrom(s, 1, <<>>)

\* lines.join('\n')
RECURSIVE JoinLines(_)
JoinLines(ls) ==
    IF Len(ls) = 0 THEN <<>>
    ELSE IF Len(ls) = 1 THEN ls[1]
    ELSE ls[1] \o <<"\n">> \o JoinLines(Tail(ls))

StartsWithAt(s, i, pat) ==
    /\ i + Len(pat) - 1 <= Len(s)
    /\ \A k \in 1..Len(pat) : s[i + k - 1] = pat[k]

\* s.replace(new RegExp(escapeRegex(pat), 'g'), rep): every non-overlapping
\* occurrence of the literal pat, found left to right, becomes rep
RECURSIVE ReplaceAllFrom(_, _, _, _)
ReplaceAllFrom(s, i, pat, rep) ==
    IF i > Len(s) THEN <<>>
    ELSE IF Len(pat) > 0 /\ StartsWithAt(s, i, pat)
         THEN rep \o ReplaceAllFrom(s, i + Len(pat), pat, rep)
         ELSE <<s[i]>> \o ReplaceAllFrom(s, i + 1, pat, rep)

ReplaceAll(s, pat, rep) == ReplaceAllFrom(s, 1, pat, rep)

(***************************************************************************)
(* Pattern pieces: each maps a set P of positions in s (1..Len(s)+1) to    *)
(* the set of positions reachable after matching the piece from some       *)
(* position of P.                                                          *)
(***************************************************************************)
\* \s*
ReSpaces(s, P) ==
    {j \in 1..Len(s) + 1 : \E i \in P : i <= j /\ \A k \in i..j - 1 : IsSpace(s[k])}

\* c?
ReOpt(s, c, P) ==
    P \cup {i + 1 : i \in {p \in P : p <= Len(s) /\ s[p] = c}}

\* c
ReChar(s, c, P) ==
    {i + 1 : i \in {p \in P : p <= Len(s) /\ s[p] = c}}

\* c+
RePlus(s, c, P) ==
    {j \in 2..Len(s) + 1 : \E i \in P : i < j /\ \A k \in i..j - 1 : s[k] = c}

----------------------------------------------------------------------------
(***************************************************************************)
(* extensions/gfmCompliantEscaping.js                                      *)
(***************************************************************************)
\* the default unescapeChars of createGfmCompliantEscapingPlugin
DefaultUnescapeChars == <<"|", "*", "_", "~">>

\* the loop of isGfmTableRow: pipes not preceded by an escaping backslash
RECURSIVE CountUnescapedPipes(_, _, _)
CountUnescapedPipes(line, i, escaped) ==
    IF i > Len(line) THEN 0
    ELSE IF escaped THEN CountUnescapedPipes(line, i + 1, FALSE)
    ELSE IF line[i] = "\\" THEN CountUnescapedPipes(line, i + 1, TRUE)
    ELSE (IF line[i] = "|" THEN 1 ELSE 0) + CountUnescapedPipes(line, i + 1, FALSE)

\* /^\s*\\\|/.test(line)
StartsWithEscapedPipe(line) ==
    ReChar(line, "|", ReChar(line, "\\", ReSpaces(line, {1}))) # {}

isGfmTableRow(line) ==
    /\ Trim(line) # <<>>
    /\ ~StartsWithEscapedPipe(line)
    /\ CountUnescapedPipes(line, 1, FALSE) >= 2

\* :?-+:?\s*
ReSeparatorCell(s, P) == ReSpaces(s, ReOpt(s, ":", RePlus(s, "-", ReOpt(s, ":", P))))

\* (\|\s*:?-+:?\s*)*
RECURSIVE ReSeparatorCells(_, _)
ReSeparatorCells(s, P) ==
    LET Q == P \cup ReSeparatorCell(s, ReSpaces(s, ReChar(s, "|", P)))
    IN IF Q = P THEN P ELSE ReSeparatorCells(s, Q)

\* /^\s*\|?\s*:?-+:?\s*(\|\s*:?-+:?\s*)*\|?\s*$/.test(trimmed)
SeparatorPatternMatches(s) ==
    Len(s) + 1 \in
        ReSpaces(s, ReOpt(s, "|",
            ReSeparatorCells(s,
                ReSeparatorCell(s, ReSpaces(s, ReOpt(s, "|", ReSpaces(s, {1})))))))

isTableSeparatorRow(line) ==
    LET trimmed == Trim(line)
    IN /\ Includes(trimmed, "|")
       /\ Includes(trimmed, "-")
       /\ SeparatorPatternMatches(trimmed)

\* one iteration of the loop of unescapeTableRowCharacters: the double
\* escape \\c first, then the single escape \c, both replaced by c
UnescapeOneChar(line, char) ==
    ReplaceAll(ReplaceAll(line, <<"\\", "\\", char>>, <<char>>), <<"\\", char>>, <<char>>)

RECURSIVE unescapeTableRowCharacters(_, _)
unescapeTableRowCharacters(line, chars) ==
    IF chars = <<>> THEN line
    ELSE unescapeTableRowCharacters(UnescapeOneChar(line, Head(chars)), Tail(chars))

\* the body of the for loop of processTableContent from line i on; inTable
\* is the loop's flag (tableRowCount is only counted, never read)
RECURSIVE ProcessLinesFrom(_, _, _, _)
ProcessLinesFrom(lines, i, inTable, chars) ==
    IF i > Len(lines) THEN <<>>
    ELSE
        LET line == lines[i]
            isTableRow == isGfmTableRow(line)
            isTableSeparator == isTableSeparatorRow(line)
            nextIsTableSeparator ==
                IF i < Len(lines) /\ lines[i + 1] # <<>>
                THEN isTableSeparatorRow(lines[i + 1]) ELSE FALSE
            nowInTable ==
                IF ~inTable /\ isTableRow THEN nextIsTableSeparator
                ELSE IF inTable /\ ~isTableRow /\ ~isTableSeparator THEN FALSE
                ELSE inTable
            outLine ==
                IF nowInTable /\ (isTableRow \/ isTableSeparator)
                THEN unescapeTableRowCharacters(line, chars)
                ELSE line
        IN <<outLine>> \o ProcessLinesFrom(lines, i + 1, nowInTable, chars)

\* a pass that looks at each line on its own: every line that looks like a
\* table row or a separator row is unescaped, whatever surrounds it
processTableContentPerLine(text, chars) ==
    LET lines == SplitLines(text)
    IN JoinLines([i \in 1..Len(lines) |->
            IF isGfmTableRow(lines[i]) \/ isTableSeparatorRow(lines[i])
            THEN unescapeTableRowCharacters(lines[i], chars)
            ELSE lines[i]])

processTableContent(text, chars) ==
    JoinLines(ProcessLinesFrom(SplitLines(text), 1, FALSE, chars))

----------------------------------------------------------------------------
(***************************************************************************)
(* extensions/tagfilter.js                                                 *)
(***************************************************************************)
UpperLetters ==
    <<"A", "B", "C", "D", "E", "F", "G", "H", "I", "J", "K", "L", "M",
      "N", "O", "P", "Q", "R", "S", "T", "U", "V", "W", "X", "Y", "Z">>

LowerLetters ==
    <<"a", "b", "c", "d", "e", "f", "g", "h", "i", "j", "k", "l", "m",
      "n", "o", "p", "q", "r", "s", "t", "u", "v", "w", "x", "y", "z">>

\* letter case is ignored by the 'i' flag of the tag pattern
ToLowerChar(c) ==
    IF \E k \in 1..Len(UpperLetters) : UpperLetters[k] = c
    THEN LowerLetters[CHOOSE k \in 1..Len(UpperLetters) : UpperLetters[k] = c]
    ELSE c

ToLowerText(s) == [k \in 1..Len(s) |-> ToLowerChar(s[k])]

DISALLOWED_TAGS ==
    << <<"t", "i", "t", "l", "e">>,
       <<"t", "e", "x", "t", "a", "r", "e", "a">>,
       <<"s", "t", "y", "l", "e">>,
       <<"x", "m", "p">>,
       <<"i", "f", "r", "a", "m", "e">>,
       <<"n", "o", "e", "m", "b", "e", "d">>,
       <<"n", "o", "f", "r", "a", "m", "e", "s">>,
       <<"s", "c", "r", "i", "p", "t">>,
       <<"p", "l", "a", "i", "n", "t", "e", "x", "t">> >>

NoMatch == [found |-> FALSE, name |-> <<>>, attrs |-> <<>>, slash |-> <<>>, end |-> 0]

\* the match of /<(title|...)((?:\s[^>]*)?)(\/??)>/i that starts at position i,
\* with its three groups; end is the position after the closing >
DisallowedTagMatchAt(s, i) ==
    IF ~(i <= Len(s) /\ s[i] = "<") THEN NoMatch
    ELSE
        LET names == {t \in 1..Len(DISALLOWED_TAGS) :
                        /\ i + Len(DISALLOWED_TAGS[t]) <= Len(s)
                        /\ ToLowerText(SubSeq(s, i + 1, i + Len(DISALLOWED_TAGS[t])))
                             = DISALLOWED_TAGS[t]}
            \* what follows the name at position j
            After(j) ==
                LET closers == {k \in j + 1..Len(s) : s[k] = ">"}
                IN IF j <= Len(s) /\ IsSpace(s[j]) /\ closers # {}
                   THEN \* (?:\s[^>]*) runs up to the first > after the space
                        LET k == CHOOSE c \in closers : \A d \in closers : c <= d
                        IN [found |-> TRUE, name |-> SubSeq(s, i + 1, j - 1),
                            attrs |-> SubSeq(s, j, k - 1), slash |-> <<>>, end |-> k + 1]
                   ELSE IF j <= Len(s) /\ s[j] = ">"
                   THEN [found |-> TRUE, name |-> SubSeq(s, i + 1, j - 1),
                         attrs |-> <<>>, slash |-> <<>>, end |-> j + 1]
                   ELSE IF j + 1 <= Len(s) /\ s[j] = "/" /\ s[j + 1] = ">"
                   THEN [found |-> TRUE, name |-> SubSeq(s, i + 1, j - 1),
                         attrs |-> <<>>, slash |-> <<"/">>, end |-> j + 2]
                   ELSE NoMatch
            hits == {t \in names : After(i + 1 + Len(DISALLOWED_TAGS[t])).found}
        IN IF hits = {} THEN NoMatch
           ELSE LET t == CHOOSE h \in hits : \A g \in hits : h <= g
                IN After(i + 1 + Len(DISALLOWED_TAGS[t]))

\* text.replace(regex, '&lt;$1$2$3>') with the global flag: matches are taken
\* left to right and the scan resumes after each match
RECURSIVE FilterFrom(_, _)
FilterFrom(s, i) ==
    IF i > Len(s) THEN <<>>
    ELSE LET m == DisallowedTagMatchAt(s, i)
         IN IF m.found
            THEN <<"&", "l", "t", ";">> \o m.name \o m.attrs \o m.slash \o <<">">>
                    \o FilterFrom(s, m.end)
            ELSE <<s[i]>> \o FilterFrom(s, i + 1)

filterDisallowedTags(text) == FilterFrom(text, 1)

----------------------------------------------------------------------------
(***************************************************************************)
(* plugins/textProcessing.js and patternTextProcessingPlugin.js: the text  *)
(* transforms of the serialize wrappers.                                   *)
(***************************************************************************)
\* the unescape loops: for each char, result.replace(/\\char/g, char)
RECURSIVE UnescapeEach(_, _)
UnescapeEach(text, chars) ==
    IF chars = <<>> THEN text
    ELSE UnescapeEach(ReplaceAll(text, <<"\\", Head(chars)>>, <<Head(chars)>>), Tail(chars))

\* the serialize wrapper of createTextProcessingPlugin (no customReplacements)
textProcessingSerialize(result, chars) == UnescapeEach(result, chars)

\* . of a pattern without the s flag matches no line terminator
IsLineTerminator(c) == c \in {"\n", "\r"}

\* TABLE_ROW_PATTERN /^\|.*$/ tested on one line by createSafeRegexTester
isTableRowText(line) ==
    /\ Len(line) >= 1
    /\ line[1] = "|"
    /\ \A k \in 2..Len(line) : ~IsLineTerminator(line[k])

\* the serialize wrapper of createPatternTextProcessingPlugin with the
\* TABLE_ROW_PATTERN (no customReplacements): global unescaping over the
\* whole output, then unescapeChars in every line that matches the pattern
patternSerialize(result, chars, globalChars) ==
    LET lines == SplitLines(UnescapeEach(result, globalChars))
    IN JoinLines([i \in 1..Len(lines) |->
            IF isTableRowText(lines[i]) THEN UnescapeEach(lines[i], chars)
            ELSE lines[i]])

\* first position from `from` on whose character is in the set stop, or
\* Len(s) + 1 when there is none
NextIn(s, from, stop) ==
    LET hits == {k \in from..Len(s) : s[k] \in stop}
    IN IF hits = {} THEN Len(s) + 1 ELSE CHOOSE k \in hits : \A h \in hits : k <= h

\* first position from `from` on that holds no whitespace, or Len(s) + 1
NextNonSpace(s, from) ==
    LET hits == {k \in from..Len(s) : ~IsSpace(s[k])}
    IN IF hits = {} THEN Len(s) + 1 ELSE CHOOSE k \in hits : \A h \in hits : k <= h

\* last pipe after position i on the line of position i, or 0
LastPipeOnLine(s, i) ==
    LET lineEnd == NextIn(s, i + 1, {"\n", "\r"})
        pipes == {k \in i + 1..lineEnd - 1 : s[k] = "|"}
    IN IF pipes = {} THEN 0 ELSE CHOOSE k \in pipes : \A h \in pipes : k >= h

\* result.replace(/(\|[^|\n]*)\\\n([^|\n]*\|)/g, '$1\n$2')
RECURSIVE SoftBreaksFrom(_, _)
SoftBreaksFrom(s, i) ==
    IF i > Len(s) THEN <<>>
    ELSE
        LET j == NextIn(s, i + 1, {"|", "\n"})
            m == NextIn(s, j + 1, {"|", "\n"})
            matches ==
                /\ s[i] = "|"
                /\ j <= Len(s) /\ s[j] = "\n"
                /\ j - 1 > i /\ s[j - 1] = "\\"
                /\ m <= Len(s) /\ s[m] = "|"
        IN IF matches
           THEN SubSeq(s, i, j - 2) \o <<"\n">> \o SubSeq(s, j + 1, m)
                    \o SoftBreaksFrom(s, m + 1)
           ELSE <<s[i]>> \o SoftBreaksFrom(s, i + 1)

\* result.replace(/(\|.*\|\s*)\n\n(\|.*\|\s*)/g, '$1\n$2')
RECURSIVE CollapseFrom(_, _)
CollapseFrom(s, i) ==
    IF i > Len(s) THEN <<>>
    ELSE
        LET p == IF s[i] = "|" THEN LastPipeOnLine(s, i) ELSE 0
            e == IF p = 0 THEN 0 ELSE NextNonSpace(s, p + 1)
            p2 == IF e >= 1 /\ e <= Len(s) /\ s[e] = "|" THEN LastPipeOnLine(s, e) ELSE 0
            matches ==
                /\ p2 # 0
                /\ e - 2 >= p + 1
                /\ s[e - 1] = "\n" /\ s[e - 2] = "\n"
            end == NextNonSpace(s, p2 + 1)
        IN IF matches
           THEN SubSeq(s, i, e - 3) \o <<"\n">> \o SubSeq(s, e, end - 1)
                    \o CollapseFrom(s, end)
           ELSE <<s[i]>> \o CollapseFrom(s, i + 1)

\* the do ... while (result !== prevResult) loop
RECURSIVE CollapseUntilStable(_)
CollapseUntilStable(s) ==
    LET next == CollapseFrom(s, 1)
    IN IF next = s THEN s ELSE CollapseUntilStable(next)

\* the serialize wrapper of createTableRowTextProcessingPlugin
softBreaksSerialize(result) ==
    CollapseUntilStable(CollapseFrom(SoftBreaksFrom(result, 1), 1))

----------------------------------------------------------------------------
(***************************************************************************)
(* GFM HTML block detection (utils/gfmHtmlBlocks.js).                      *)
(***************************************************************************)
BLOCK_LEVEL_TAGS ==
    { <<"a", "d", "d", "r", "e", "s", "s">>,
      <<"a", "r", "t", "i", "c", "l", "e">>,
      <<"a", "s", "i", "d", "e">>,
      <<"b", "a", "s", "e">>,
      <<"b", "a", "s", "e", "f", "o", "n", "t">>,
      <<"b", "l", "o", "c", "k", "q", "u", "o", "t", "e">>,
      <<"b", "o", "d", "y">>,
      <<"c", "a", "p", "t", "i", "o", "n">>,
      <<"c", "e", "n", "t", "e", "r">>,
      <<"c", "o", "l">>,
      <<"c", "o", "l", "g", "r", "o", "u", "p">>,
      <<"d", "d">>,
      <<"d", "e", "t", "a", "i", "l", "s">>,
      <<"d", "i", "a", "l", "o", "g">>,
      <<"d", "i", "r">>,
      <<"d", "i", "v">>,
      <<"d", "l">>,
      <<"d", "t">>,
      <<"f", "i", "e", "l", "d", "s", "e", "t">>,
      <<"f", "i", "g", "c", "a", "p", "t", "i", "o", "n">>,
      <<"f", "i", "g", "u", "r", "e">>,
      <<"f", "o", "o", "t", "e", "r">>,
      <<"f", "o", "r", "m">>,
      <<"f", "r", "a", "m", "e">>,
      <<"f", "r", "a", "m", "e", "s", "e", "t">>,
      <<"h", "1">>,
      <<"h", "2">>,
      <<"h", "3">>,
      <<"h", "4">>,
      <<"h", "5">>,
      <<"h", "6">>,
      <<"h", "e", "a", "d">>,
      <<"h", "e", "a", "d", "e", "r">>,
      <<"h", "r">>,
      <<"h", "t", "m", "l">>,
      <<"i", "f", "r", "a", "m", "e">>,
      <<"l", "e", "g", "e", "n", "d">>,
      <<"l", "i">>,
      <<"l", "i", "n", "k">>,
      <<"m", "a", "i", "n">>,
      <<"m", "e", "n", "u">>,
      <<"m", "e", "n", "u", "i", "t", "e", "m">>,
      <<"n", "a", "v">>,
      <<"n", "o", "f", "r", "a", "m", "e", "s">>,
      <<"o", "l">>,
      <<"o", "p", "t", "g", "r", "o", "u", "p">>,
      <<"o", "p", "t", "i", "o", "n">>,
      <<"p">>,
      <<"p", "a", "r", "a", "m">>,
      <<"s", "e", "c", "t", "i", "o", "n">>,
      <<"s", "o", "u", "r", "c", "e">>,
      <<"s", "u", "m", "m", "a", "r", "y">>,
      <<"t", "a", "b", "l", "e">>,
      <<"t", "b", "o", "d", "y">>,
      <<"t", "d">>,
      <<"t", "f", "o", "o", "t">>,
      <<"t", "h">>,
      <<"t", "h", "e", "a", "d">>,
      <<"t", "i", "t", "l", "e">>,
      <<"t", "r">>,
      <<"t", "r", "a", "c", "k">>,
      <<"u", "l">> }

\* HTML_BLOCK_TYPES; NoType stands for the null the classifier returns
NoType == 0

SCRIPT_STYLE_PRE == 1

COMMENT == 2

PROCESSING_INSTRUCTION == 3

DECLARATION == 4

CDATA == 5

BLOCK_LEVEL == 6

\* HTML_BLOCK_TYPES.OTHER
OTHER_TYPE == 7

Digits == {"0", "1", "2", "3", "4", "5", "6", "7", "8", "9"}

IsUpperLetter(c) == \E k \in DOMAIN UpperLetters : c = UpperLetters[k]

IsLetter(c) == IsUpperLetter(c) \/ \E k \in DOMAIN LowerLetters : c = LowerLetters[k]

\* [a-zA-Z0-9-]
IsTagNameChar(c) == IsLetter(c) \/ c \in Digits \/ c = "-"

\* s.includes(pat) for a text pat
IncludesText(s, pat) == \E i \in 1..Len(s) : StartsWithAt(s, i, pat)

\* the position after the longest run of tag-name characters starting at i
RECURSIVE TagNameEnd(_, _)
TagNameEnd(s, i) ==
    IF i <= Len(s) /\ IsTagNameChar(s[i]) THEN TagNameEnd(s, i + 1) ELSE i

\* /^<(?:script|pre|style)(?:\s|>|$)/i
MatchesScriptStylePre(t) ==
    /\ Len(t) >= 1 /\ t[1] = "<"
    /\ \E name \in {<<"s","c","r","i","p","t">>, <<"p","r","e">>, <<"s","t","y","l","e">>} :
        /\ Len(t) >= 1 + Len(name)
        /\ ToLowerText(SubSeq(t, 2, 1 + Len(name))) = name
        /\ \/ Len(t) = 1 + Len(name)
           \/ IsSpace(t[2 + Len(name)])
           \/ t[2 + Len(name)] = ">"

\* the declaration rule taking any character after <!
MatchesDeclarationAnyName(t) ==
    /\ StartsWithAt(t, 1, <<"<", "!">>)
    /\ Len(t) >= 3

\* /^<!([A-Z]+)/i
MatchesDeclaration(t) ==
    /\ StartsWithAt(t, 1, <<"<", "!">>)
    /\ Len(t) >= 3
    /\ IsLetter(t[3])

\* where the tag name of /^<\/?([a-zA-Z][a-zA-Z0-9-]*)/ starts, 0 when the
\* pattern does not match
TagNameStart(t) ==
    IF Len(t) >= 2 /\ t[1] = "<" /\ IsLetter(t[2]) THEN 2
    ELSE IF Len(t) >= 3 /\ t[1] = "<" /\ t[2] = "/" /\ IsLetter(t[3]) THEN 3
    ELSE 0

\* blockTagMatch, BLOCK_LEVEL_TAGS.has(tagName) and the complete-tag test
\* /^<\/?[a-zA-Z][a-zA-Z0-9-]*(?:\s[^>]*>|\/?>|>)/
MatchesBlockLevel(t) ==
    /\ TagNameStart(t) # 0
    /\ LET from == TagNameStart(t)
           e == TagNameEnd(t, from)
       IN /\ ToLowerText(SubSeq(t, from, e - 1)) \in BLOCK_LEVEL_TAGS
          /\ e <= Len(t)
          /\ \/ IsSpace(t[e]) /\ \E k \in e + 1..Len(t) : t[k] = ">"
             \/ t[e] = ">"
             \/ t[e] = "/" /\ e + 1 <= Len(t) /\ t[e + 1] = ">"

\* the open-tag pattern without its end anchor
MatchesOpenTagPrefix(t) ==
    /\ Len(t) >= 3 /\ t[1] = "<" /\ IsLetter(t[2])
    /\ LET e == TagNameEnd(t, 2)
       IN /\ e <= Len(t)
          /\ \/ t[e] = ">"
             \/ IsSpace(t[e]) /\ \E k \in e + 1..Len(t) : t[k] = ">"

\* /^<[a-zA-Z][a-zA-Z0-9-]*(?:\s[^>]*)?>$/
MatchesCompleteOpenTag(t) ==
    /\ Len(t) >= 3 /\ t[1] = "<" /\ IsLetter(t[2])
    /\ LET e == TagNameEnd(t, 2)
       IN /\ e <= Len(t)
          /\ t[Len(t)] = ">"
          /\ \/ e = Len(t)
             \/ /\ IsSpace(t[e])
                /\ \A k \in e + 1..Len(t) - 1 : t[k] # ">"

\* /^<\/[a-zA-Z][a-zA-Z0-9-]*>$/
MatchesCompleteCloseTag(t) ==
    /\ Len(t) >= 4 /\ t[1] = "<" /\ t[2] = "/" /\ IsLetter(t[3])
    /\ TagNameEnd(t, 3) = Len(t)
    /\ t[Len(t)] = ">"

\* getHtmlBlockStartType(line)
getHtmlBlockStartType(line) ==
    LET trimmed == Trim(line)
    IN IF trimmed = <<>> THEN NoType
       ELSE IF MatchesScriptStylePre(trimmed) THEN SCRIPT_STYLE_PRE
       ELSE IF StartsWithAt(trimmed, 1, <<"<", "!", "-", "-">>) THEN COMMENT
       ELSE IF StartsWithAt(trimmed, 1, <<"<", "?">>) THEN PROCESSING_INSTRUCTION
       ELSE IF MatchesDeclaration(trimmed) THEN DECLARATION
       ELSE IF StartsWithAt(trimmed, 1, <<"<", "!", "[", "C", "D", "A", "T", "A", "[">>) THEN CDATA
       ELSE IF MatchesBlockLevel(trimmed) THEN BLOCK_LEVEL
       ELSE IF MatchesCompleteOpenTag(trimmed) \/ MatchesCompleteCloseTag(trimmed) THEN OTHER_TYPE
       ELSE NoType

\* /<\/(?:script|pre|style)>/i.test(trimmed)
IncludesScriptStylePreEnd(t) ==
    \E i \in 1..Len(t) :
        \E name \in {<<"<","/","s","c","r","i","p","t",">">>, <<"<","/","p","r","e",">">>,
                     <<"<","/","s","t","y","l","e",">">>} :
            /\ i + Len(name) - 1 <= Len(t)
            /\ ToLowerText(SubSeq(t, i, i + Len(name) - 1)) = name

\* isHtmlBlockEnd(line, blockType)
isHtmlBlockEnd(line, blockType) ==
    LET trimmed == Trim(line)
    IN CASE blockType = SCRIPT_STYLE_PRE -> IncludesScriptStylePreEnd(trimmed)
         [] blockType = COMMENT -> IncludesText(trimmed, <<"-", "-", ">">>)
         [] blockType = PROCESSING_INSTRUCTION -> IncludesText(trimmed, <<"?", ">">>)
         [] blockType = DECLARATION -> IncludesText(trimmed, <<">">>)
         [] blockType = CDATA -> IncludesText(trimmed, <<"]", "]", ">">>)
         [] OTHER -> FALSE

\* lines.length, lines[k] and blank-line test with the source's 0-based indices
LineAt(lines, k) == lines[k + 1]

\* the blank-line loop stopping one line short of the document's end
RECURSIVE BlankLineEndShort(_, _)
BlankLineEndShort(lines, end) ==
    IF end + 2 < Len(lines) /\ Trim(LineAt(lines, end + 1)) # <<>>
    THEN BlankLineEndShort(lines, end + 1)
    ELSE end

\* while (end + 1 < lines.length && lines[end + 1].trim() !== '') end++
RECURSIVE BlankLineEnd(_, _)
BlankLineEnd(lines, end) ==
    IF end + 1 < Len(lines) /\ Trim(LineAt(lines, end + 1)) # <<>>
    THEN BlankLineEnd(lines, end + 1)
    ELSE end

\* while (end < lines.length) { if (isHtmlBlockEnd(lines[end], blockType)) break; end++ }
RECURSIVE MarkerEnd(_, _, _)
MarkerEnd(lines, end, blockType) ==
    IF end < Len(lines) /\ ~isHtmlBlockEnd(LineAt(lines, end), blockType)
    THEN MarkerEnd(lines, end + 1, blockType)
    ELSE end

\* the end findHtmlBlocks computes for a block of blockType starting at line i
BlockEnd(lines, i, blockType) ==
    IF blockType \in {BLOCK_LEVEL, OTHER_TYPE}
    THEN BlankLineEnd(lines, i)
    ELSE MarkerEnd(lines, i, blockType)

\* a scan that resumes on the line that ended the block
ResumeAtEnd(end) == end

\* i = end + 1
ResumeAfter(end) == end + 1

HtmlIdle ==
    /\ lineParts = <<>>
    /\ startType = NoType
    /\ scanLines = <<>>
    /\ scanI = 0
    /\ blocks = <<>>
    /\ htmlStage = "input"

RECURSIVE Flatten(_)
Flatten(parts) == IF parts = <<>> THEN <<>> ELSE Head(parts) \o Flatten(Tail(parts))

----------------------------------------------------------------------------
(***************************************************************************)
(* Table validators (utils/patternUtils.js, portable-utils/tableUtils.js). *)
(***************************************************************************)
\* s.split(c) for a one-character separator
RECURSIVE SplitOnFrom(_, _, _, _)
SplitOnFrom(s, i, cur, c) ==
    IF i > Len(s) THEN <<cur>>
    ELSE IF s[i] = c THEN <<cur>> \o SplitOnFrom(s, i + 1, <<>>, c)
    ELSE SplitOnFrom(s, i + 1, Append(cur, s[i]), c)

SplitOn(s, c) == SplitOnFrom(s, 1, <<>>, c)

StartsWithPipe(s) == s # <<>> /\ s[1] = "|"

\* trimmed.slice(1) with a trailing pipe left in place
RowContentKeepTrailing(trimmed) == Tail(trimmed)

\* trimmed.slice(1), then slice(0, -1) when the content ends with |
RowContent(trimmed) ==
    LET content == Tail(trimmed)
    IN IF content # <<>> /\ content[Len(content)] = "|"
       THEN SubSeq(content, 1, Len(content) - 1)
       ELSE content

\* countTableCells(line)
countTableCells(line) ==
    IF ~StartsWithPipe(Trim(line)) THEN 0
    ELSE Len(SplitOn(RowContent(Trim(line)), "|"))

\* /^:?-+:?$/.test(col)
MatchesAlignment(col) ==
    Len(col) + 1 \in ReOpt(col, ":", RePlus(col, "-", ReOpt(col, ":", {1})))

\* isTableSeparatorRow(line) of patternUtils.js and tableUtils.js
isTableSeparatorRowOfColumns(line) ==
    LET trimmed == Trim(line)
    IN /\ StartsWithPipe(trimmed)
       /\ LET columns == SplitOn(RowContent(trimmed), "|")
          IN \A k \in 1..Len(columns) : MatchesAlignment(Trim(columns[k]))

\* markdown.split('\n').map(line => line.trim()).filter(line => line && line.startsWith('|'))
RECURSIVE TableLinesOf(_)
TableLinesOf(lines) ==
    IF lines = <<>> THEN <<>>
    ELSE IF StartsWithPipe(Trim(Head(lines)))
         THEN <<Trim(Head(lines))>> \o TableLinesOf(Tail(lines))
         ELSE TableLinesOf(Tail(lines))

\* the validator comparing the cell counts only
validateTableCountsOnly(text) ==
    LET tableLines == TableLinesOf(SplitLines(text))
    IN IF text = <<>> THEN [isValid |-> FALSE, rowCount |-> 0, columnCount |-> 0]
       ELSE IF Len(tableLines) < 2
            THEN [isValid |-> FALSE, rowCount |-> Len(tableLines), columnCount |-> 0]
       ELSE IF countTableCells(tableLines[1]) # countTableCells(tableLines[2])
            THEN [isValid |-> FALSE, rowCount |-> Len(tableLines),
                  columnCount |-> countTableCells(tableLines[1])]
       ELSE [isValid |-> TRUE, rowCount |-> Len(tableLines),
             columnCount |-> countTableCells(tableLines[1])]

\* validateTable(markdown) of tableUtils.js
validateTable(text) ==
    LET tableLines == TableLinesOf(SplitLines(text))
    IN IF text = <<>> THEN [isValid |-> FALSE, rowCount |-> 0, columnCount |-> 0]
       ELSE IF Len(tableLines) < 2
            THEN [isValid |-> FALSE, rowCount |-> Len(tableLines), columnCount |-> 0]
       ELSE IF ~isTableSeparatorRowOfColumns(tableLines[2])
            THEN [isValid |-> FALSE, rowCount |-> Len(tableLines), columnCount |-> 0]
       ELSE IF countTableCells(tableLines[1]) # countTableCells(tableLines[2])
            THEN [isValid |-> FALSE, rowCount |-> Len(tableLines),
                  columnCount |-> countTableCells(tableLines[1])]
       ELSE [isValid |-> TRUE, rowCount |-> Len(tableLines),
             columnCount |-> countTableCells(tableLines[1])]

Invalid == [isValid |-> FALSE, cssClass |-> "pm-block-invalid"]

Valid == [isValid |-> TRUE, cssClass |-> "pm-table"]

\* validateTableStructureWithSerialization(node, serializer), where text is
\* what serializer.serialize(node) returns
validateTableStructureWithSerialization(text) ==
    LET tableLines == TableLinesOf(SplitLines(text))
    IN IF Len(tableLines) = 0 THEN Invalid
       ELSE IF Len(tableLines) = 1 THEN Invalid
       ELSE IF isTableSeparatorRowOfColumns(tableLines[2])
            THEN IF countTableCells(tableLines[1]) = countTableCells(tableLines[2])
                 THEN Valid
                 ELSE Invalid
       ELSE Invalid

\* text.split('\n').filter(line => line.trim().startsWith('|'))
RECURSIVE PipeLinesOf(_)
PipeLinesOf(lines) ==
    IF lines = <<>> THEN <<>>
    ELSE IF StartsWithPipe(Trim(Head(lines)))
         THEN <<Head(lines)>> \o PipeLinesOf(Tail(lines))
         ELSE PipeLinesOf(Tail(lines))

\* validateTableStructure(text) of patternUtils.js
validateTableStructure(text) ==
    IF Trim(text) = <<>> \/ ~Includes(text, "|") \/ ~StartsWithPipe(Trim(text)) THEN Invalid
    ELSE IF Len(PipeLinesOf(SplitLines(text))) >= 2 THEN Valid
    ELSE Invalid

NotValidated == [stage |-> "none"]

ValidIdle == validation = NotValidated

----------------------------------------------------------------------------
(***************************************************************************)
(* Serializer objects, their node-serializer tables, and the plugins'      *)
(* enhanceSerializer methods.  A serializer's serialize method is the      *)
(* sequence of wrappers installed on it: wrappers[1] wraps the library's   *)
(* serialize, and every later wrapper calls the one before it through its  *)
(* originalSerialize and then applies its own text transform.              *)
(***************************************************************************)
Systems == {"sysA", "sysB"}

TableIds == {"default"} \cup Systems

NodeTypes == {"paragraph", "table_cell", "table_header"}

\* the node types createGfmCompliantEscapingPlugin patches
TableNodeTypes == {"table_cell", "table_header"}

\* a table entry is -1 when the table has no serializer for the node type,
\* and otherwise the number of context-flag functions wrapped around the
\* original node serializer
LibraryDefaultNodes ==
    [t \in NodeTypes |-> IF t = "paragraph" THEN 0 ELSE -1]

NoSerializer == [created |-> FALSE, flags |-> {}, wrappers |-> <<>>, nodes |-> "default"]

NoCall == [system |-> "none", history |-> <<>>, raw |-> <<>>, result |-> <<>>, ran |-> <<>>]

PluginNames == {"gfm", "tagfilter", "tildes", "patternRows", "tableRow", "combined"}

Wrapper(kind, chars, globalChars) ==
    [kind |-> kind, chars |-> chars, globalChars |-> globalChars]

\* the default unescapeChars of createTableRowTextProcessingPlugin
TableRowUnescapeChars == <<"|", "*", "_">>

\* createMarkdownSystem sharing the library's node table instead of copying it
createMarkdownSystemSharedTable(w, s, withTableNodes) ==
    [serializers |-> [w.serializers EXCEPT ![s] =
        [created |-> TRUE, flags |-> {}, wrappers |-> <<>>, nodes |-> "default"]],
     nodeTables |-> [w.nodeTables EXCEPT !["default"] =
        [t \in NodeTypes |->
            IF withTableNodes /\ t \in TableNodeTypes THEN 0 ELSE w.nodeTables["default"][t]]]]

\* createMarkdownSystem(extensions): a new MarkdownSerializer over a copy of
\* the library's node table, to which the extensions' toMarkdown.nodes are
\* assigned (withTableNodes: an extension brings table_cell and table_header
\* serializers).  The function takes no second parameter.
createMarkdownSystem(w, s, withTableNodes) ==
    [serializers |-> [w.serializers EXCEPT ![s] =
        [created |-> TRUE, flags |-> {}, wrappers |-> <<>>, nodes |-> s]],
     nodeTables |-> [w.nodeTables EXCEPT ![s] =
        [t \in NodeTypes |->
            IF withTableNodes /\ t \in TableNodeTypes THEN 0 ELSE w.nodeTables["default"][t]]]]

AddWrapper(w, s, newFlags, wrapper) ==
    [w EXCEPT !.serializers[s].flags = @ \cup newFlags,
              !.serializers[s].wrappers = Append(@, wrapper)]

\* the escaper's enhanceSerializer without its marker check
GfmEnhanceUnguarded(w, s, chars) ==
    LET patched == [w EXCEPT !.nodeTables[w.serializers[s].nodes] =
                        [t \in NodeTypes |->
                            IF t \in TableNodeTypes /\ @[t] >= 0 THEN @[t] + 1 ELSE @[t]]]
    IN AddWrapper(patched, s, {"__gfmCompliantEscapingPatched"},
                  Wrapper("gfmCompliantEscaping", chars, <<>>))

\* createGfmCompliantEscapingPlugin(chars).enhanceSerializer(mdSerializer)
GfmEnhance(w, s, chars) ==
    IF "__gfmCompliantEscapingPatched" \in w.serializers[s].flags THEN w
    ELSE
        LET patched == [w EXCEPT !.nodeTables[w.serializers[s].nodes] =
                            [t \in NodeTypes |->
                                IF t \in TableNodeTypes /\ @[t] >= 0 THEN @[t] + 1 ELSE @[t]]]
        IN AddWrapper(patched, s, {"__gfmCompliantEscapingPatched"},
                      Wrapper("gfmCompliantEscaping", chars, <<>>))

\* createTagfilterTextProcessingPlugin().enhanceSerializer(mdSerializer)
TagfilterEnhance(w, s) ==
    AddWrapper(w, s, {}, Wrapper("tagfilterTextProcessing", <<>>, <<>>))

\* createTextProcessingPlugin({unescapeChars: chars, enabled}).enhanceSerializer
TextProcessingEnhance(w, s, chars, enabled) ==
    IF ~enabled THEN w
    ELSE AddWrapper(w, s, {}, Wrapper("textProcessing", chars, <<>>))

\* the pattern plugin's enhanceSerializer without its marker check
PatternEnhanceUnguarded(w, s, chars, globalChars, enabled) ==
    IF ~enabled THEN w
    ELSE AddWrapper(w, s, {"__patternTextProcessingPatched"},
                    Wrapper("patternTextProcessing", chars, globalChars))

\* createPatternTextProcessingPlugin({pattern: TABLE_ROW_PATTERN, unescapeChars:
\* chars, globalUnescapeChars: globalChars, enabled}).enhanceSerializer
PatternEnhance(w, s, chars, globalChars, enabled) ==
    IF ~enabled THEN w
    ELSE IF "__patternTextProcessingPatched" \in w.serializers[s].flags THEN w
    ELSE AddWrapper(w, s, {"__patternTextProcessingPatched"},
                    Wrapper("patternTextProcessing", chars, globalChars))

\* createTableRowTextProcessingPlugin({unescapeChars: chars}).enhanceSerializer
\* (handleSoftBreaks true): the base pattern plugin first, then the soft-break
\* wrapper under its own marker
TableRowEnhance(w, s, chars) ==
    LET enhanced == PatternEnhance(w, s, chars, <<"~">>, TRUE)
    IN IF "__tableRowSoftBreaksPatched" \in enhanced.serializers[s].flags THEN enhanced
       ELSE AddWrapper(enhanced, s, {"__tableRowSoftBreaksPatched"},
                       Wrapper("tableRowSoftBreaks", <<>>, <<>>))

\* the combined plugin with its two calls in the other order
CombinedEnhanceTagfilterFirst(w, s) ==
    GfmEnhance(TagfilterEnhance(w, s), s, DefaultUnescapeChars)

\* combinedTextProcessing.enhanceSerializer: the escaper, then the tag filter
CombinedEnhance(w, s) ==
    TagfilterEnhance(GfmEnhance(w, s, DefaultUnescapeChars), s)

\* plugin.enhanceSerializer(mdSerializer) for each plugin object in use
PluginEnhance(p, w, s) ==
    CASE p = "gfm" -> GfmEnhance(w, s, DefaultUnescapeChars)
      [] p = "tagfilter" -> TagfilterEnhance(w, s)
      [] p = "tildes" -> TextProcessingEnhance(w, s, <<"~">>, TRUE)
      [] p = "patternRows" -> PatternEnhance(w, s, TableRowUnescapeChars, <<"~">>, TRUE)
      [] p = "tableRow" -> TableRowEnhance(w, s, TableRowUnescapeChars)
      [] p = "combined" -> CombinedEnhance(w, s)
      [] p = "patternPipes" -> PatternEnhance(w, s, <<"|">>, <<>>, TRUE)

\* the text transform a wrapper applies to what its originalSerialize returned
WrapperTransform(wrapper, text) ==
    CASE wrapper.kind = "gfmCompliantEscaping" -> processTableContent(text, wrapper.chars)
      [] wrapper.kind = "tagfilterTextProcessing" -> filterDisallowedTags(text)
      [] wrapper.kind = "textProcessing" -> textProcessingSerialize(text, wrapper.chars)
      [] wrapper.kind = "patternTextProcessing" ->
            patternSerialize(text, wrapper.chars, wrapper.globalChars)
      [] wrapper.kind = "tableRowSoftBreaks" -> softBreaksSerialize(text)

\* mdSerializer.serialize(doc) where the library's serialize returns raw
RECURSIVE EvalSerialize(_, _)
EvalSerialize(wrappers, raw) ==
    IF wrappers = <<>> THEN raw
    ELSE WrapperTransform(wrappers[Len(wrappers)],
                          EvalSerialize(SubSeq(wrappers, 1, Len(wrappers) - 1), raw))

\* the order in which the transforms run during one serialize call: each
\* wrapper runs its transform after its originalSerialize has returned
RanOrder(wrappers) == [i \in 1..Len(wrappers) |-> wrappers[i].kind]

\* what the library's serialize returns for the documents serialized
RawOutputs ==
    { <<"|", "\\", "\\", "\\", "\\", "|", "|", "\n", "|", "-">>,   \* a table header
      <<"<", "x", "m", "p", " ", "<", "x", "m", "p", ">">>,       \* raw HTML
      <<"\\", "\\", "~">>,                                         \* escaped backslash, tilde
      <<"|", "|", "\n", "\n", "|", "\\", "*", "|">> }              \* rows around a blank line

\* the table documents among them
TableRawOutputs == {raw \in RawOutputs : raw[1] = "|"}

TextIdle ==
    /\ markdown = <<>>
    /\ unescapeChars = <<>>
    /\ processed = <<>>
    /\ reprocessed = <<>>
    /\ stage = "input"

\* no pattern plugin built, no call of its wrapper made
NoPatternPlugin == [state |-> "none"]

NoPatternCall == [stage |-> "none"]

PatIdle == patternPlugin = NoPatternPlugin /\ patternCall = NoPatternCall

\* a document of the editor: what the serializer makes of it (or that it
\* throws) and the document's textContent
Doc(md, throws, hasText, textContent) ==
    [md |-> md, throws |-> throws, hasText |-> hasText, textContent |-> textContent]

NoDoc == Doc("", FALSE, FALSE, "")

NoSwitch == [stage |-> "none"]

NoSafeCall == [stage |-> "none"]

EditIdle ==
    /\ edMode = "none"
    /\ textarea = ""
    /\ edDoc = NoDoc
    /\ syncScheduled = FALSE
    /\ lastSwitch = NoSwitch
    /\ safeCall = NoSafeCall

ParseIdle ==
    /\ parseLines = <<>>
    /\ parseI = 0
    /\ nodes = <<>>
    /\ parseStage = "input"

LoopIdle ==
    /\ collapseRaw = <<>>
    /\ collapseResult = <<>>
    /\ collapsePrev = <<>>
    /\ collapseStage = "input"

MoreIdle == PatIdle /\ EditIdle /\ ParseIdle /\ LoopIdle

SerIdle ==
    /\ serializers = [s \in Systems |-> NoSerializer]
    /\ nodeTables = [id \in TableIds |-> LibraryDefaultNodes]
    /\ requested = [s \in Systems |-> "none"]
    /\ applied = [s \in Systems |-> <<>>]
    /\ lastSerialize = NoCall

Init == TextIdle /\ SerIdle /\ HtmlIdle /\ ValidIdle /\ MoreIdle

\* createMarkdownSystem(extensions, {textProcessing}) for the slot s
CreateMarkdownSystem(s, withTableNodes, textProcessing) ==
    /\ ~serializers[s].created
    /\ LET w == createMarkdownSystem([serializers |-> serializers, nodeTables |-> nodeTables],
                                     s, withTableNodes)
       IN /\ serializers' = w.serializers
          /\ nodeTables' = w.nodeTables
    /\ requested' = [requested EXCEPT ![s] = textProcessing]
    /\ UNCHANGED <<applied, lastSerialize>>
    /\ UNCHANGED <<textVars, htmlVars, validVars, moreVars>>

\* plugin.enhanceSerializer(mdSerializer) on the serializer of system s
EnhanceSerializer(s, p) ==
    /\ serializers[s].created
    /\ Len(applied[s]) < MaxCalls
    /\ LET w == PluginEnhance(p, [serializers |-> serializers, nodeTables |-> nodeTables], s)
       IN /\ serializers' = w.serializers
          /\ nodeTables' = w.nodeTables
    /\ applied' = [applied EXCEPT ![s] = Append(@, p)]
    /\ UNCHANGED <<requested, lastSerialize>>
    /\ UNCHANGED <<textVars, htmlVars, validVars, moreVars>>

\* mdSerializer.serialize(doc) on the serializer of system s
Serialize(s, raw) ==
    /\ serializers[s].created
    /\ lastSerialize' = [system |-> s, history |-> applied[s], raw |-> raw,
                         result |-> EvalSerialize(serializers[s].wrappers, raw),
                         ran |-> RanOrder(serializers[s].wrappers)]
    /\ UNCHANGED <<serializers, nodeTables, requested, applied>>
    /\ UNCHANGED <<textVars, htmlVars, validVars, moreVars>>

\* one serializer and every plugin
Next ==
    \/ \E withTableNodes \in BOOLEAN : CreateMarkdownSystem("sysA", withTableNodes, "none")
    \/ \E p \in PluginNames : EnhanceSerializer("sysA", p)
    \/ \E raw \in RawOutputs : Serialize("sysA", raw)

Spec == Init /\ [][Next]_vars

\* several markdown systems, created with and without a textProcessing option
SystemsNext ==
    \/ \E s \in Systems, withTableNodes \in BOOLEAN, textProcessing \in {"none", "tableRow"} :
            CreateMarkdownSystem(s, withTableNodes, textProcessing)
    \/ \E s \in Systems, p \in {"gfm", "tableRow"} : EnhanceSerializer(s, p)
    \/ \E s \in Systems, raw \in TableRawOutputs : Serialize(s, raw)

SpecSystems == Init /\ [][SystemsNext]_vars

\* two pattern plugins of different configurations (patternPipes is
\* createPatternTextProcessingPlugin({pattern: TABLE_ROW_PATTERN}) with the
\* default unescapeChars) and an unguarded plugin, on one serializer
PatternPluginNames == {"patternRows", "patternPipes"}

TwoPatternsNext ==
    \/ \E withTableNodes \in BOOLEAN : CreateMarkdownSystem("sysA", withTableNodes, "none")
    \/ \E p \in PatternPluginNames \cup {"tildes"} : EnhanceSerializer("sysA", p)
    \/ \E raw \in RawOutputs : Serialize("sysA", raw)

SpecTwoPatterns == Init /\ [][TwoPatternsNext]_vars

----------------------------------------------------------------------------
(***************************************************************************)
(* Claims about the composition of plugins on a serializer.                *)
(***************************************************************************)
GfmMarker == "__gfmCompliantEscapingPatched"

PatternMarker == "__patternTextProcessingPatched"

SoftBreaksMarker == "__tableRowSoftBreaksPatched"

\* T_p: the text transform of plugin p as its factory documents it
PluginTransform(p, text) ==
    CASE p = "gfm" -> processTableContent(text, DefaultUnescapeChars)
      [] p = "tagfilter" -> filterDisallowedTags(text)
      [] p = "tildes" -> textProcessingSerialize(text, <<"~">>)
      [] p = "patternRows" -> patternSerialize(text, TableRowUnescapeChars, <<"~">>)
      [] p = "tableRow" ->
            softBreaksSerialize(patternSerialize(text, TableRowUnescapeChars, <<"~">>))
      [] p = "combined" ->
            filterDisallowedTags(processTableContent(text, DefaultUnescapeChars))

\* Tn(...T2(T1(raw))) for the plugins p1..pn of a call history
RECURSIVE ComposedInOrder(_, _)
ComposedInOrder(history, raw) ==
    IF history = <<>> THEN raw
    ELSE PluginTransform(history[Len(history)],
                         ComposedInOrder(SubSeq(history, 1, Len(history) - 1), raw))

\* the markers a call of p finds set or sets
MarkersOf(p) ==
    CASE p \in {"gfm", "combined"} -> {GfmMarker}
      [] p = "patternRows" -> {PatternMarker}
      [] p = "tableRow" -> {PatternMarker, SoftBreaksMarker}
      [] OTHER -> {}

IfUnmarked(marker, markers, pass) == IF marker \in markers THEN <<>> ELSE <<pass>>

\* the passes a call of p installs on a serializer carrying the given markers
PassesInstalledBy(p, markers) ==
    CASE p = "gfm" -> IfUnmarked(GfmMarker, markers, "gfmCompliantEscaping")
      [] p = "tagfilter" -> <<"tagfilterTextProcessing">>
      [] p = "tildes" -> <<"textProcessing">>
      [] p = "patternRows" -> IfUnmarked(PatternMarker, markers, "patternTextProcessing")
      [] p = "tableRow" ->
            IfUnmarked(PatternMarker, markers, "patternTextProcessing")
                \o IfUnmarked(SoftBreaksMarker, markers, "tableRowSoftBreaks")
      [] p = "combined" ->
            IfUnmarked(GfmMarker, markers, "gfmCompliantEscaping")
                \o <<"tagfilterTextProcessing">>

\* the passes installed by a call history, in call order
RECURSIVE InstalledFrom(_, _, _)
InstalledFrom(history, i, markers) ==
    IF i > Len(history) THEN <<>>
    ELSE PassesInstalledBy(history[i], markers)
            \o InstalledFrom(history, i + 1, markers \cup MarkersOf(history[i]))

PassTransform(pass, text) ==
    CASE pass = "gfmCompliantEscaping" -> processTableContent(text, DefaultUnescapeChars)
      [] pass = "tagfilterTextProcessing" -> filterDisallowedTags(text)
      [] pass = "textProcessing" -> textProcessingSerialize(text, <<"~">>)
      [] pass = "patternTextProcessing" ->
            patternSerialize(text, TableRowUnescapeChars, <<"~">>)
      [] pass = "tableRowSoftBreaks" -> softBreaksSerialize(text)

RECURSIVE ApplyPasses(_, _)
ApplyPasses(passes, raw) ==
    IF passes = <<>> THEN raw
    ELSE PassTransform(passes[Len(passes)],
                       ApplyPasses(SubSeq(passes, 1, Len(passes) - 1), raw))

AllCallsOf(history, p) ==
    /\ history # <<>>
    /\ \A i \in 1..Len(history) : history[i] = p

CountKind(wrappers, kind) ==
    Cardinality({i \in 1..Len(wrappers) : wrappers[i].kind = kind})

\* C4 as stated: after the calls p1..pn, serialize returns Tn(...T1(raw)).
C4_AsStated ==
    lastSerialize.system # "none" =>
        lastSerialize.result = ComposedInOrder(lastSerialize.history, lastSerialize.raw)

\* C4: serialize returns the composition, in call order, of the passes the
\* enhanceSerializer calls installed (a call that finds its marker set
\* installs nothing), the pass installed first running first on the raw
\* output; with the shipped composition alone the table-context pass runs
\* first and only tag filters run after it.
C4_InstalledPassesInCallOrder ==
    lastSerialize.system # "none" =>
        LET installed == InstalledFrom(lastSerialize.history, 1, {})
        IN /\ lastSerialize.ran = installed
           /\ lastSerialize.result = ApplyPasses(installed, lastSerialize.raw)
           /\ AllCallsOf(lastSerialize.history, "combined") =>
                /\ lastSerialize.ran[1] = "gfmCompliantEscaping"
                /\ \A j \in 2..Len(lastSerialize.ran) :
                        lastSerialize.ran[j] = "tagfilterTextProcessing"

C4_Witness ==
    /\ lastSerialize.history = <<"gfm", "tagfilter", "gfm">>
    /\ lastSerialize.ran = <<"gfmCompliantEscaping", "tagfilterTextProcessing">>
    /\ lastSerialize.raw[1] = "|"
    /\ lastSerialize.result # lastSerialize.raw
    /\ lastSerialize.result # ComposedInOrder(lastSerialize.history, lastSerialize.raw)

\* the wrappers one call of a guarded plugin leaves on a fresh serializer
SingleApplication(p) ==
    CASE p = "gfm" -> <<Wrapper("gfmCompliantEscaping", DefaultUnescapeChars, <<>>)>>
      [] p = "patternRows" ->
            <<Wrapper("patternTextProcessing", TableRowUnescapeChars, <<"~">>)>>
      [] p = "tableRow" ->
            <<Wrapper("patternTextProcessing", TableRowUnescapeChars, <<"~">>),
              Wrapper("tableRowSoftBreaks", <<>>, <<>>)>>

GuardedPlugins == {"gfm", "patternRows", "tableRow"}

GuardedKinds == {"gfmCompliantEscaping", "patternTextProcessing", "tableRowSoftBreaks"}

\* C5: for the pattern processor, the table-row plugin and the table-context
\* escaper, calls after the first leave the serializer as the first call left
\* it: each guarded wrapper is installed at most once, the table node
\* serializers are patched at most once, and the output is that of a single
\* application.
C5_GuardedPluginsWrapOnce ==
    /\ \A s \in Systems :
        /\ \A kind \in GuardedKinds : CountKind(serializers[s].wrappers, kind) <= 1
        /\ \A t \in TableNodeTypes : nodeTables[serializers[s].nodes][t] <= 1
        /\ \A p \in GuardedPlugins :
                AllCallsOf(applied[s], p) =>
                    serializers[s].wrappers = SingleApplication(p)
    /\ \A p \in GuardedPlugins :
            (lastSerialize.system # "none" /\ AllCallsOf(lastSerialize.history, p)) =>
                lastSerialize.result = PluginTransform(p, lastSerialize.raw)

C5_Witness ==
    /\ lastSerialize.system = "sysA"
    /\ lastSerialize.history = <<"gfm", "gfm", "gfm">>
    /\ applied["sysA"] = lastSerialize.history
    /\ nodeTables["sysA"]["table_cell"] = 1
    /\ lastSerialize.raw[1] = "|"
    /\ lastSerialize.result = PluginTransform("gfm", lastSerialize.raw)
    /\ lastSerialize.result # PluginTransform("gfm", PluginTransform("gfm", lastSerialize.raw))

\* the wrapper one call of an unguarded plugin leaves on a fresh serializer
FirstApplication(p) ==
    CASE p = "tagfilter" -> <<Wrapper("tagfilterTextProcessing", <<>>, <<>>)>>
      [] p = "tildes" -> <<Wrapper("textProcessing", <<"~">>, <<>>)>>

\* C6: after any number of enhanceSerializer calls of the tag-filter plugin, or
\* of the plain text-processing plugin, the serializer's serialize method is
\* as the first call left it.
C6_UnguardedSecondCallNoOp ==
    \A s \in Systems : \A p \in {"tagfilter", "tildes"} :
        AllCallsOf(applied[s], p) => serializers[s].wrappers = FirstApplication(p)

\* C7: an enhanceSerializer call on one system's serializer changes neither
\* another system's serializer or node table nor the library's default
\* node table, and a first call of a plugin on a serializer wraps it
\* whatever was done to the other serializers with the same plugin.
C7_SerializersIndependent ==
    [][\A s \in Systems :
            applied'[s] # applied[s] =>
                /\ nodeTables'["default"] = nodeTables["default"]
                /\ nodeTables["default"] = LibraryDefaultNodes
                /\ \A o \in Systems \ {s} :
                        /\ serializers'[o] = serializers[o]
                        /\ nodeTables'[serializers[o].nodes] = nodeTables[serializers[o].nodes]
                /\ applied[s] = <<>> =>
                        /\ serializers[s].flags = {}
                        /\ serializers[s].wrappers = <<>>
                        /\ serializers'[s].flags # {}
                        /\ serializers'[s].wrappers # <<>>]_vars

C7_Witness ==
    /\ \A s \in Systems :
        /\ applied[s] = <<"gfm">>
        /\ GfmMarker \in serializers[s].flags
        /\ Len(serializers[s].wrappers) = 1
    /\ nodeTables["sysA"]["table_cell"] = 1
    /\ nodeTables["sysB"]["table_cell"] = -1
    /\ nodeTables["default"] = LibraryDefaultNodes

\* C8: a serializer created with the option textProcessing: P carries P's
\* marker from construction on (the table-row plugin's pattern marker).
C8_TextProcessingOptionApplied ==
    \A s \in Systems :
        (serializers[s].created /\ requested[s] = "tableRow") =>
            PatternMarker \in serializers[s].flags

----------------------------------------------------------------------------
(***************************************************************************)
(* Inputs of the table-context pass: serialized Markdown assembled from    *)
(* the pieces a serializer emits around tables.                            *)
(***************************************************************************)
TableFragments ==
    { <<"|">>,                 \* a cell delimiter
      <<"\\", "|">>,           \* an escaped pipe
      <<"\\", "*">>,           \* an escaped asterisk
      <<"\\", "\\">>,          \* an escaped backslash
      <<"\n">>,                \* a line break
      <<"\n", "|", "-">> }     \* a line break followed by a separator row

EscaperConfigs == { DefaultUnescapeChars, <<"*">> }

TableInit ==
    /\ SerIdle
    /\ HtmlIdle
    /\ ValidIdle
    /\ MoreIdle
    /\ markdown = <<>>
    /\ unescapeChars \in EscaperConfigs
    /\ processed = <<>>
    /\ reprocessed = <<>>
    /\ stage = "input"

\* the serializer emits one more piece of the text
EmitTableFragment ==
    /\ stage = "input"
    /\ \E f \in TableFragments :
        /\ Len(markdown) + Len(f) <= MaxTextLen
        /\ markdown' = markdown \o f
    /\ UNCHANGED <<unescapeChars, processed, reprocessed, stage>>
    /\ UNCHANGED <<serVars, htmlVars, validVars, moreVars>>

\* the wrapped serialize runs processTableContent on the serializer's output
RunTablePass ==
    /\ stage = "input"
    /\ processed' = processTableContent(markdown, unescapeChars)
    /\ stage' = "once"
    /\ UNCHANGED <<markdown, unescapeChars, reprocessed>>
    /\ UNCHANGED <<serVars, htmlVars, validVars, moreVars>>

\* the pass runs again on its own output
RerunTablePass ==
    /\ stage = "once"
    /\ reprocessed' = processTableContent(processed, unescapeChars)
    /\ stage' = "twice"
    /\ UNCHANGED <<markdown, unescapeChars, processed>>
    /\ UNCHANGED <<serVars, htmlVars, validVars, moreVars>>

TableNext == EmitTableFragment \/ RunTablePass \/ RerunTablePass

SpecTable == TableInit /\ [][TableNext]_vars

----------------------------------------------------------------------------
(***************************************************************************)
(* Claims about the table-context escaping pass.                           *)
(***************************************************************************)
InputLines == SplitLines(markdown)


\* line i lies in a table region: some line h at or before it is a table row
\* directly followed by a separator row, and every line from h to i is a
\* table row or a separator row
InTableRegion(lines, i) ==
    \E h \in 1..i :
        /\ h < Len(lines)
        /\ Trim(lines[h]) # <<>>
        /\ ~StartsWithEscapedPipe(lines[h])
        /\ CountUnescapedPipes(lines[h], 1, FALSE) >= 2
        /\ isTableSeparatorRow(lines[h + 1])
        /\ \A k \in h..i : isGfmTableRow(lines[k]) \/ isTableSeparatorRow(lines[k])

\* the region as C1 words it: it opens at any line with at least 2 unescaped
\* pipes that is directly followed by a separator row
InClaimedRegion(lines, i) ==
    \E h \in 1..i :
        /\ h < Len(lines)
        /\ CountUnescapedPipes(lines[h], 1, FALSE) >= 2
        /\ isTableSeparatorRow(lines[h + 1])
        /\ \A k \in h + 1..i : isGfmTableRow(lines[k]) \/ isTableSeparatorRow(lines[k])

C2_PassIdempotent ==
    stage = "twice" => reprocessed = processed

\* C3: with the pipe among the unescape characters, an in-table line whose
\* only backslashes are the two of one escaped backslash directly before a
\* pipe keeps one backslash: the line loses exactly the first of the two.
C3_EscapedBackslashKept ==
    stage = "once" /\ Includes(unescapeChars, "|") =>
        \A i \in 1..Len(InputLines) :
            LET line == InputLines[i]
            IN \A p \in 1..Len(line) :
                ( /\ InTableRegion(InputLines, i)
                  /\ StartsWithAt(line, p, <<"\\", "\\", "|">>)
                  /\ \A q \in 1..Len(line) : line[q] = "\\" => q \in {p, p + 1} )
                => SplitLines(processed)[i]
                     = SubSeq(line, 1, p - 1) \o SubSeq(line, p + 1, Len(line))

----------------------------------------------------------------------------
(***************************************************************************)
(* Inputs of the tag filter: serialized text assembled from tag openers,   *)
(* tag closers and the characters that may follow a tag name.              *)
(***************************************************************************)
TagFragments ==
    { <<"<", "x", "m", "p">>,              \* a disallowed name
      <<"<", "S", "t", "y", "l", "e">>,    \* a disallowed name in mixed case
      <<"<", "/", "x", "m", "p">>,         \* the start of a closing tag
      <<"<", "d", "i", "v">>,              \* an allowed name
      <<">">>, <<" ">>, <<"/">> }

TagInit ==
    /\ SerIdle
    /\ HtmlIdle
    /\ ValidIdle
    /\ MoreIdle
    /\ markdown = <<>>
    /\ unescapeChars = <<>>
    /\ processed = <<>>
    /\ reprocessed = <<>>
    /\ stage = "input"

EmitTagFragment ==
    /\ stage = "input"
    /\ \E f \in TagFragments :
        /\ Len(markdown) + Len(f) <= MaxTextLen
        /\ markdown' = markdown \o f
    /\ UNCHANGED <<unescapeChars, processed, reprocessed, stage>>
    /\ UNCHANGED <<serVars, htmlVars, validVars, moreVars>>

\* the wrapped serialize runs filterDisallowedTags on the serializer's output
RunTagFilter ==
    /\ stage = "input"
    /\ processed' = filterDisallowedTags(markdown)
    /\ stage' = "once"
    /\ UNCHANGED <<markdown, unescapeChars, reprocessed>>
    /\ UNCHANGED <<serVars, htmlVars, validVars, moreVars>>

\* the filter runs again on its own output
RerunTagFilter ==
    /\ stage = "once"
    /\ reprocessed' = filterDisallowedTags(processed)
    /\ stage' = "twice"
    /\ UNCHANGED <<markdown, unescapeChars, processed>>
    /\ UNCHANGED <<serVars, htmlVars, validVars, moreVars>>

TagNext == EmitTagFragment \/ RunTagFilter \/ RerunTagFilter

SpecTag == TagInit /\ [][TagNext]_vars

----------------------------------------------------------------------------
(***************************************************************************)
(* Claims about the tag filter.                                            *)
(***************************************************************************)
\* an opening or self-closing tag with a disallowed name, in any letter case
\* and with any attributes, begins at position i
DisallowedOpeningTagAt(s, i) ==
    /\ s[i] = "<"
    /\ \E t \in 1..Len(DISALLOWED_TAGS) :
        LET j == i + 1 + Len(DISALLOWED_TAGS[t])
        IN /\ j <= Len(s)
           /\ ToLowerText(SubSeq(s, i + 1, j - 1)) = DISALLOWED_TAGS[t]
           /\ \/ s[j] = ">"
              \/ j + 1 <= Len(s) /\ s[j] = "/" /\ s[j + 1] = ">"
              \/ IsSpace(s[j]) /\ \E k \in j + 1..Len(s) : s[k] = ">"


\* C9: the filter turns the leading < of every opening or self-closing tag
\* with a disallowed name into &lt; and leaves every other character as it
\* is (closing tags, tags with other names, plain text).
C9_EveryDisallowedTagEscaped ==
    stage = "once" =>
        processed = Flatten([i \in 1..Len(markdown) |->
            IF DisallowedOpeningTagAt(markdown, i)
            THEN <<"&", "l", "t", ";">> ELSE <<markdown[i]>>])

\* C10: filtering the filter's own output changes nothing.
C10_FilterIdempotent ==
    stage = "twice" => reprocessed = processed

----------------------------------------------------------------------------
(***************************************************************************)
(* Classifying one line, and scanning a document for HTML blocks.          *)
(***************************************************************************)
LineParts ==
    { <<"<", "!", "-", "-">>,
      <<"<", "?">>,
      <<"<", "!", "D", "O", "C", "T", "Y", "P", "E">>,
      <<"<", "!", "d", "o", "c", "t", "y", "p", "e">>,
      <<"<", "!", "[", "C", "D", "A", "T", "A", "[">>,
      <<"<", "d", "i", "v">>,
      <<"<", "s", "p", "a", "n">>,
      <<"<", "/", "s", "p", "a", "n">>,
      <<"<", "p", "r", "e">>,
      <<">">>,
      <<" ">>,
      <<" ", " ", " ", " ">>,
      <<"x">> }

SampleLines ==
    { <<>>,
      <<"x">>,
      <<"<", "d", "i", "v", ">">>,
      <<"<", "b", ">">>,
      <<"<", "p", "r", "e", ">">>,
      <<"<", "/", "p", "r", "e", ">">>,
      <<"<", "!", "-", "-">>,
      <<"-", "-", ">">>,
      <<"<", "?">>,
      <<"?", ">">>,
      <<"<", "!", "A", ">">>,
      <<"<", "!", "A">>,
      <<"<", "!", "[", "C", "D", "A", "T", "A", "[">>,
      <<"]", "]", ">">> }

\* the line handed to getHtmlBlockStartType
ClassifiedLine == Flatten(lineParts)

EmitLinePart(f) ==
    /\ htmlStage = "input"
    /\ Len(lineParts) < MaxLineParts
    /\ lineParts' = Append(lineParts, f)
    /\ UNCHANGED <<startType, scanLines, scanI, blocks, htmlStage>>
    /\ UNCHANGED <<textVars, serVars, validVars, moreVars>>

ClassifyLine ==
    /\ htmlStage = "input"
    /\ startType' = getHtmlBlockStartType(ClassifiedLine)
    /\ htmlStage' = "classified"
    /\ UNCHANGED <<lineParts, scanLines, scanI, blocks>>
    /\ UNCHANGED <<textVars, serVars, validVars, moreVars>>

ClassifyNext == (\E f \in LineParts : EmitLinePart(f)) \/ ClassifyLine

SpecClassify == Init /\ [][ClassifyNext]_vars

AppendLine(line) ==
    /\ htmlStage = "input"
    /\ Len(scanLines) < MaxHtmlLines
    /\ scanLines' = Append(scanLines, line)
    /\ UNCHANGED <<lineParts, startType, scanI, blocks, htmlStage>>
    /\ UNCHANGED <<textVars, serVars, validVars, moreVars>>

\* findHtmlBlocks(lines): const blocks = []; let i = 0
StartScan ==
    /\ htmlStage = "input"
    /\ htmlStage' = "scanning"
    /\ scanI' = 0
    /\ blocks' = <<>>
    /\ UNCHANGED <<lineParts, startType, scanLines>>
    /\ UNCHANGED <<textVars, serVars, validVars, moreVars>>

\* one iteration of while (i < lines.length)
ScanStep ==
    /\ htmlStage = "scanning"
    /\ scanI < Len(scanLines)
    /\ LET blockType == getHtmlBlockStartType(LineAt(scanLines, scanI))
       IN IF blockType # NoType
          THEN LET end == BlockEnd(scanLines, scanI, blockType)
               IN /\ blocks' = Append(blocks, [start |-> scanI, end |-> end, type |-> blockType])
                  /\ scanI' = ResumeAfter(end)
          ELSE /\ scanI' = scanI + 1
               /\ blocks' = blocks
    /\ UNCHANGED <<lineParts, startType, scanLines, htmlStage>>
    /\ UNCHANGED <<textVars, serVars, validVars, moreVars>>

\* the loop condition fails: return blocks
ReturnBlocks ==
    /\ htmlStage = "scanning"
    /\ scanI >= Len(scanLines)
    /\ htmlStage' = "done"
    /\ UNCHANGED <<lineParts, startType, scanLines, scanI, blocks>>
    /\ UNCHANGED <<textVars, serVars, validVars, moreVars>>

ScanNext ==
    \/ \E line \in SampleLines : AppendLine(line)
    \/ StartScan
    \/ ScanStep
    \/ ReturnBlocks

SpecScan == Init /\ [][ScanNext]_vars

----------------------------------------------------------------------------
(***************************************************************************)
(* Claims about HTML block detection.                                      *)
(***************************************************************************)
IsBlankLine(line) == Trim(line) = <<>>

LastLine == Len(scanLines) - 1

\* C11: the ranges of one scan are in increasing line order and disjoint:
\* every range has start <= end and every range after the first starts at
\* or after the previous range's end + 1.
C11_RangesOrderedDisjoint ==
    \A k \in 1..Len(blocks) :
        /\ blocks[k].start <= blocks[k].end
        /\ k > 1 => blocks[k].start >= blocks[k - 1].end + 1

C11_Witness ==
    /\ htmlStage = "done"
    /\ Len(blocks) = 2
    /\ blocks[1].end > blocks[1].start
    /\ blocks[2].start = blocks[1].end + 1

HasEndAtOrAfter(b) ==
    \E k \in b.start..LastLine : isHtmlBlockEnd(LineAt(scanLines, k), b.type)

\* C12: a block of type 1 to 5 without a closing marker on or after its start
\* line gets a range whose end is the index of the last line.
C12_UnterminatedEndsOnLastLine ==
    htmlStage = "done" =>
        \A k \in 1..Len(blocks) :
            (blocks[k].type \in SCRIPT_STYLE_PRE..CDATA /\ ~HasEndAtOrAfter(blocks[k])) =>
                blocks[k].end = LastLine

\* C13: a BLOCK_LEVEL or OTHER block ends on the last line before the first
\* blank line after its start, or on the document's last line when no blank
\* line follows; a block of type 1 to 5 that has a closing line ends on the
\* first line at or after its start for which isHtmlBlockEnd holds.
C13_BlockEndRule ==
    \A k \in 1..Len(blocks) :
        LET b == blocks[k]
        IN IF b.type \in {BLOCK_LEVEL, OTHER_TYPE}
           THEN /\ b.end <= LastLine
                /\ \A j \in b.start + 1..b.end : ~IsBlankLine(LineAt(scanLines, j))
                /\ b.end < LastLine => IsBlankLine(LineAt(scanLines, b.end + 1))
           ELSE HasEndAtOrAfter(b) =>
                /\ b.end <= LastLine
                /\ isHtmlBlockEnd(LineAt(scanLines, b.end), b.type)
                /\ \A j \in b.start..b.end - 1 : ~isHtmlBlockEnd(LineAt(scanLines, j), b.type)

C13_Witness ==
    /\ htmlStage = "done"
    /\ Len(scanLines) = 3
    /\ blocks = <<[start |-> 0, end |-> 0, type |-> DECLARATION],
                  [start |-> 1, end |-> 1, type |-> BLOCK_LEVEL]>>
    /\ IsBlankLine(scanLines[3])

\* the rules of the classifier, in their fixed order
RuleMatches(rule, t) ==
    CASE rule = SCRIPT_STYLE_PRE -> MatchesScriptStylePre(t)
      [] rule = COMMENT -> StartsWithAt(t, 1, <<"<", "!", "-", "-">>)
      [] rule = PROCESSING_INSTRUCTION -> StartsWithAt(t, 1, <<"<", "?">>)
      [] rule = DECLARATION -> MatchesDeclaration(t)
      [] rule = CDATA -> StartsWithAt(t, 1, <<"<", "!", "[", "C", "D", "A", "T", "A", "[">>)
      [] rule = BLOCK_LEVEL -> MatchesBlockLevel(t)
      [] rule = OTHER_TYPE -> MatchesCompleteOpenTag(t) \/ MatchesCompleteCloseTag(t)

RulesMatching(t) == {rule \in SCRIPT_STYLE_PRE..OTHER_TYPE : RuleMatches(rule, t)}

Min(S) == CHOOSE x \in S : \A y \in S : x <= y

CanonicalLines ==
    << <<"<", "s", "c", "r", "i", "p", "t", ">">>,
       <<"<", "!", "-", "-">>,
       <<"<", "?", "x", "m", "l", " ", "v", "e", "r", "s", "i", "o", "n", "=", "\"", "1", ".", "0", "\"", "?", ">">>,
       <<"<", "!", "D", "O", "C", "T", "Y", "P", "E", " ", "h", "t", "m", "l", ">">>,
       <<"<", "!", "[", "C", "D", "A", "T", "A", "[">>,
       <<"<", "d", "i", "v", " ", "c", "l", "a", "s", "s", "=", "\"", "x", "\"", ">">>,
       <<"<", "s", "p", "a", "n", ">">> >>

\* C14: every line receives the type of the first rule that matches it in the
\* order 1 to 7, or null when none matches, and the canonical lines receive
\* the types 1 to 7.
C14_FirstMatchingRule ==
    /\ htmlStage = "classified" =>
        LET matching == RulesMatching(Trim(ClassifiedLine))
        IN startType = IF matching = {} THEN NoType ELSE Min(matching)
    /\ \A k \in 1..Len(CanonicalLines) : getHtmlBlockStartType(CanonicalLines[k]) = k

C14_Witness ==
    /\ htmlStage = "classified"
    /\ ClassifiedLine = <<"<", "p", "r", "e", ">">>
    /\ RulesMatching(ClassifiedLine) = {SCRIPT_STYLE_PRE, OTHER_TYPE}
    /\ startType = SCRIPT_STYLE_PRE

LeadingSpaces(line) == Len(line) - Len(TrimStart(line))

\* C15: a line whose < is preceded by 4 or more spaces yields null, and a line
\* with 0 to 3 leading spaces is classified as the line without them.
C15_IndentedLinesRejected ==
    htmlStage = "classified" =>
        /\ (LeadingSpaces(ClassifiedLine) >= 4 /\ TrimStart(ClassifiedLine) # <<>>
                /\ Head(TrimStart(ClassifiedLine)) = "<") => startType = NoType
        /\ LeadingSpaces(ClassifiedLine) <= 3 =>
                startType = getHtmlBlockStartType(TrimStart(ClassifiedLine))

\* C16: a line is DECLARATION only when the name directly after <! is written
\* in uppercase letters.
C16_DeclarationUppercaseOnly ==
    htmlStage = "classified" =>
        (startType = DECLARATION =>
            LET t == Trim(ClassifiedLine)
            IN \A k \in 3..TagNameEnd(t, 3) - 1 : IsLetter(t[k]) => IsUpperLetter(t[k]))

\* a text that is one complete open or close tag
IsCompleteTag(t) == MatchesCompleteOpenTag(t) \/ MatchesCompleteCloseTag(t)

\* the name of a complete tag, in lower case
CompleteTagName(t) ==
    LET from == IF t[2] = "/" THEN 3 ELSE 2
    IN ToLowerText(SubSeq(t, from, TagNameEnd(t, from) - 1))

\* t holds a complete non-block-level tag together with text around it
IsMixedContent(t) ==
    \E i \in 1..Len(t) : \E j \in i..Len(t) :
        /\ i > 1 \/ j < Len(t)
        /\ IsCompleteTag(SubSeq(t, i, j))
        /\ CompleteTagName(SubSeq(t, i, j)) \notin BLOCK_LEVEL_TAGS

\* C17 as stated: OTHER only for a line that is one complete tag, and null
\* for every line that mixes a non-block-level tag with text around it.
C17_AsStated ==
    htmlStage = "classified" =>
        LET t == Trim(ClassifiedLine)
        IN /\ startType = OTHER_TYPE => IsCompleteTag(t)
           /\ IsMixedContent(t) => startType = NoType

\* C17: OTHER only when the trimmed line is one complete open or close tag,
\* from its < to its only > at the end of the line; a line with text before
\* the < yields null, and a line with anything after the first > is never
\* OTHER.
C17_OtherOnlyWholeLineTag ==
    htmlStage = "classified" =>
        LET t == Trim(ClassifiedLine)
        IN /\ startType = OTHER_TYPE =>
                /\ IsCompleteTag(t)
                /\ t[1] = "<" /\ t[Len(t)] = ">"
                /\ \A k \in 1..Len(t) - 1 : t[k] # ">"
           /\ (t # <<>> /\ t[1] # "<") => startType = NoType
           /\ (\E k \in 1..Len(t) - 1 : t[k] = ">") => startType # OTHER_TYPE

C17_Witness ==
    /\ htmlStage = "classified"
    /\ ClassifiedLine = <<"<", "s", "p", "a", "n", ">", "x">>
    /\ startType = NoType

----------------------------------------------------------------------------
(***************************************************************************)
(* Validating table texts.                                                 *)
(***************************************************************************)
ValidatorFragments ==
    { <<"|">>,
      <<"\n">>,
      <<"|", "A">>,
      <<"|", "-">>,
      <<":", "-">>,
      <<"-", " ">>,
      <<"-", "|">> }

EmitValidatorFragment(f) ==
    /\ stage = "input"
    /\ Len(markdown) + Len(f) <= MaxTextLen
    /\ markdown' = markdown \o f
    /\ UNCHANGED <<unescapeChars, processed, reprocessed, stage>>
    /\ UNCHANGED <<serVars, htmlVars, validVars, moreVars>>

\* the validators and the row predicates applied to the text and its lines
Validate ==
    /\ stage = "input"
    /\ stage' = "once"
    /\ validation' =
        [stage |-> "validated",
         table |-> validateTable(markdown),
         serialized |-> validateTableStructureWithSerialization(markdown),
         structure |-> validateTableStructure(markdown),
         cells |-> [k \in 1..Len(SplitLines(markdown)) |->
                        countTableCells(SplitLines(markdown)[k])],
         separators |-> [k \in 1..Len(SplitLines(markdown)) |->
                        isTableSeparatorRowOfColumns(SplitLines(markdown)[k])]]
    /\ UNCHANGED <<markdown, unescapeChars, processed, reprocessed>>
    /\ UNCHANGED <<serVars, htmlVars, moreVars>>

ValidateNext == (\E f \in ValidatorFragments : EmitValidatorFragment(f)) \/ Validate

SpecValidate == Init /\ [][ValidateNext]_vars

(***************************************************************************)
(* Claims about the table validators.                                      *)
(***************************************************************************)
Validated == validation.stage = "validated"

TextLines == SplitLines(markdown)

\* C18: for a header line over a separator line, validateTable and
\* validateTableStructureWithSerialization report valid exactly when the two
\* cell counts are equal and the second line is a separator row; | A | B |
\* over | - | - | is valid and | A | B | over |- is invalid.
C18_ValidIffCountsEqualAndSeparator ==
    /\ (Validated /\ Len(TextLines) = 2) =>
        LET expected == /\ validation.cells[1] = validation.cells[2]
                        /\ validation.separators[2]
        IN /\ validation.table.isValid = expected
           /\ validation.serialized.isValid = expected
    /\ validateTable(<<"|", " ", "A", " ", "|", " ", "B", " ", "|", "\n",
                       "|", " ", "-", " ", "|", " ", "-", " ", "|">>).isValid
    /\ ~validateTable(<<"|", " ", "A", " ", "|", " ", "B", " ", "|", "\n", "|", "-">>).isValid

C18_Witness ==
    /\ Validated
    /\ markdown = <<"|", "A", "|", "A", "\n", "|", "-", "|", "-", "|">>
    /\ validation.cells = <<2, 2>>
    /\ validation.table.isValid
    /\ validation.serialized = Valid

\* one optional leading and one optional trailing | stripped from the text
StripOptionalPipes(t) ==
    LET noLead == IF StartsWithPipe(t) THEN Tail(t) ELSE t
    IN IF noLead # <<>> /\ noLead[Len(noLead)] = "|"
       THEN SubSeq(noLead, 1, Len(noLead) - 1)
       ELSE noLead

ClaimedSeparatorRow(line) ==
    LET cells == SplitOn(StripOptionalPipes(Trim(line)), "|")
    IN \A k \in 1..Len(cells) : MatchesAlignment(Trim(cells[k]))

\* C19: isTableSeparatorRow(line) is true exactly when, after one optional
\* leading and one optional trailing | are stripped from the trimmed line,
\* every cell between the pipes, trimmed, matches ^:?-+:?$.
C19_SeparatorIffEveryCellMatches ==
    Validated =>
        \A k \in 1..Len(TextLines) :
            validation.separators[k] = ClaimedSeparatorRow(TextLines[k])

\* C20: validateTableStructure reports a header over a separator row as valid
\* exactly when their cell counts are equal, whatever rows follow.
C20_StructureValidIffCountsEqual ==
    (/\ Validated
     /\ Len(TextLines) >= 2
     /\ StartsWithPipe(Trim(TextLines[1]))
     /\ validation.separators[2]) =>
        validation.structure = IF validation.cells[1] = validation.cells[2] THEN Valid ELSE Invalid

----------------------------------------------------------------------------
(***************************************************************************)
(* The pattern-conditional processor (patternTextProcessingPlugin.js):     *)
(* createPatternTextProcessingPlugin(options) and the serialize wrapper    *)
(* its enhanceSerializer installs, with customReplacements.                *)
(***************************************************************************)
\* the characters with a meaning of their own in a regular expression source
RegexSyntaxChars ==
    {".", "*", "+", "?", "^", "$", "{", "}", "(", ")", "|", "[", "]", "\\"}

\* new RegExp(from, 'g') for a string from: what the source compiles to.
\* A source without syntax characters matches itself; "." matches any one
\* character but a line terminator; "|" is an alternation of two empty
\* branches and matches the empty string at every position; a lone "(", ")",
\* "[", "*", "+", "?" or "\" is no regular expression (SyntaxError).
RegExpOfSource(from) ==
    CASE \A k \in 1..Len(from) : from[k] \notin RegexSyntaxChars -> "literal"
      [] from = <<".">> -> "anyChar"
      [] from = <<"|">> -> "empty"
      [] Len(from) = 1 /\ from[1] \in {"(", ")", "[", "*", "+", "?", "\\"} -> "SyntaxError"

\* line.replace(/./g, to)
ReplaceAnyChar(line, to) ==
    Flatten([k \in 1..Len(line) |-> IF IsLineTerminator(line[k]) THEN <<line[k]>> ELSE to])

\* line.replace(/|/g, to): an empty match before every character and at the end
ReplaceEmptyMatches(line, to) ==
    to \o Flatten([k \in 1..Len(line) |-> <<line[k]>> \o to])

\* processedLine.replace(new RegExp(from, 'g'), to) for a source that compiles
RegExpReplace(line, from, to) ==
    CASE RegExpOfSource(from) = "literal" -> ReplaceAll(line, from, to)
      [] RegExpOfSource(from) = "anyChar" -> ReplaceAnyChar(line, to)
      [] RegExpOfSource(from) = "empty" -> ReplaceEmptyMatches(line, to)

NotThrown(text) == [threw |-> FALSE, text |-> text]

Thrown == [threw |-> TRUE, text |-> <<>>]

\* the for (const { from, to } of customReplacements) loop over one line;
\* every from is a string, compiled when the loop reaches it
RECURSIVE ApplyCustomReplacements(_, _)
ApplyCustomReplacements(line, reps) ==
    IF reps = <<>> THEN NotThrown(line)
    ELSE IF RegExpOfSource(Head(reps).from) = "SyntaxError" THEN Thrown
    ELSE ApplyCustomReplacements(RegExpReplace(line, Head(reps).from, Head(reps).to),
                                 Tail(reps))

\* the body of the line loop with its two steps in the other order
ProcessMatchingLineCustomFirst(line, chars, reps) ==
    LET replaced == ApplyCustomReplacements(line, reps)
    IN IF replaced.threw THEN Thrown
       ELSE NotThrown(UnescapeEach(replaced.text, chars))

\* the body of the line loop for a line that matches the pattern: the
\* unescapeChars loop, then the customReplacements loop
ProcessMatchingLine(line, chars, reps) ==
    ApplyCustomReplacements(UnescapeEach(line, chars), reps)

\* the serialize wrapper of createPatternTextProcessingPlugin({pattern:
\* TABLE_ROW_PATTERN, ...options}) applied to what originalSerialize returned
patternSerializeWithOptions(result, options) ==
    LET lines == SplitLines(UnescapeEach(result, options.globalUnescapeChars))
        outs == [i \in 1..Len(lines) |->
                    IF isTableRowText(lines[i])
                    THEN ProcessMatchingLine(lines[i], options.unescapeChars,
                                             options.customReplacements)
                    ELSE NotThrown(lines[i])]
    IN IF \E i \in 1..Len(lines) : outs[i].threw THEN Thrown
       ELSE NotThrown(JoinLines([i \in 1..Len(lines) |-> outs[i].text]))

\* createPatternTextProcessingPlugin(options) throws: no pattern (the check
\* of line 26), a pattern that is no RegExp (createSafeRegexTester reads
\* pattern.flags), or an unescapeChars value without a map method
PatternConstructionThrows(options) ==
    \/ options.pattern = "missing"
    \/ options.pattern = "string"
    \/ options.unescapeCharsType # "array"

\* the customReplacements entries in use, each with a string from
ReplacementEntries ==
    { [from |-> <<"a">>, to |-> <<"b">>],
      [from |-> <<"b">>, to |-> <<"\\">>],
      [from |-> <<".">>, to |-> <<"a">>],
      [from |-> <<"|">>, to |-> <<"a">>],
      [from |-> <<"(">>, to |-> <<>>] }

RECURSIVE SeqsUpTo(_, _)
SeqsUpTo(S, n) ==
    IF n = 0 THEN {<<>>}
    ELSE LET shorter == SeqsUpTo(S, n - 1)
         IN shorter \cup {Append(q, x) : q \in shorter, x \in S}

PatternOptions ==
    [pattern : {"missing", "string", "tableRow"},
     unescapeCharsType : {"array", "number"},
     unescapeChars : {<<"|">>, <<"a">>},
     globalUnescapeChars : {<<>>, <<"a">>},
     customReplacements : SeqsUpTo(ReplacementEntries, MaxReplacements)]

\* the lines of the texts originalSerialize returns
PatternLines ==
    { <<"|", "a">>,
      <<"|", "\\", "|", "a">>,
      <<"|", "\\", "a", "|", "b">>,
      <<"a", "\\", "|">>,
      <<"\\", "a", ".">> }

PatternRawOutputs ==
    {JoinLines(ls) : ls \in SeqsUpTo(PatternLines, MaxPatternLines) \ {<<>>}}

\* createPatternTextProcessingPlugin(options)
CreatePatternPlugin(options) ==
    /\ patternPlugin.state = "none"
    /\ patternPlugin' =
            [state |-> IF PatternConstructionThrows(options) THEN "threw" ELSE "constructed",
             options |-> options]
    /\ UNCHANGED patternCall
    /\ UNCHANGED <<baseVars, editVars, parseVars, loopVars>>

\* mdSerializer.serialize(doc) after the plugin's enhanceSerializer, where the
\* wrapped serialize returns raw.  The wrapper keeps no state between calls
\* (replace with a global regex starts at lastIndex 0, the pattern tester
\* resets it), so one call per plugin is explored.
PatternSerialize(raw) ==
    /\ patternPlugin.state = "constructed"
    /\ patternCall.stage = "none"
    /\ LET out == patternSerializeWithOptions(raw, patternPlugin.options)
       IN patternCall' = [stage |-> IF out.threw THEN "threw" ELSE "returned",
                          raw |-> raw, result |-> out.text]
    /\ UNCHANGED patternPlugin
    /\ UNCHANGED <<baseVars, editVars, parseVars, loopVars>>

PatternNext ==
    \/ \E options \in PatternOptions : CreatePatternPlugin(options)
    \/ \E raw \in PatternRawOutputs : PatternSerialize(raw)

SpecPattern == Init /\ [][PatternNext]_vars

----------------------------------------------------------------------------
(***************************************************************************)
(* Claims about the pattern-conditional processor.                         *)
(***************************************************************************)
\* C21: every configuration error of the pattern processor is thrown by
\* createPatternTextProcessingPlugin at construction, so no later serialize
\* call throws because of the configuration.
C21_NoSerializeCallThrows == patternCall.stage # "threw"

PatternReturned == patternCall.stage = "returned"

CallLines ==
    SplitLines(UnescapeEach(patternCall.raw, patternPlugin.options.globalUnescapeChars))

\* the replacements applied one after the other, first entry first
RECURSIVE ReplacementsInArrayOrder(_, _, _)
ReplacementsInArrayOrder(line, reps, k) ==
    IF k > Len(reps) THEN line
    ELSE ReplacementsInArrayOrder(RegExpReplace(line, reps[k].from, reps[k].to), reps, k + 1)

\* C22: the wrapper's steps run in a fixed order: globalUnescapeChars over the
\* whole output first; then in every line that matches the pattern the
\* unescapeChars before any custom replacement, the custom replacements in
\* array order; a line that does not match gets the global unescaping only.
C22_FixedStepOrder ==
    PatternReturned =>
        LET options == patternPlugin.options
            lines == CallLines
            out == SplitLines(patternCall.result)
        IN /\ Len(out) = Len(lines)
           /\ \A i \in 1..Len(lines) :
                out[i] = IF isTableRowText(lines[i])
                         THEN ReplacementsInArrayOrder(
                                UnescapeEach(lines[i], options.unescapeChars),
                                options.customReplacements, 1)
                         ELSE lines[i]

\* a call in which every step had something to do and the order of the
\* steps shows in the result
C22_Witness ==
    /\ PatternReturned
    /\ patternPlugin.options.globalUnescapeChars = <<"a">>
    /\ patternPlugin.options.unescapeChars = <<"|">>
    /\ patternPlugin.options.customReplacements =
            << [from |-> <<"a">>, to |-> <<"b">>], [from |-> <<"b">>, to |-> <<"\\">>] >>
    /\ patternCall.raw = <<"|", "\\", "a", "|", "b", "\n", "a", "\\", "|">>
    /\ patternCall.result = <<"|", "\\", "|", "\\", "\n", "a", "\\", "|">>

\* a string from taken literally: every occurrence of exactly its characters
RECURSIVE LiteralReplacements(_, _)
LiteralReplacements(line, reps) ==
    IF reps = <<>> THEN line
    ELSE LiteralReplacements(ReplaceAll(line, Head(reps).from, Head(reps).to), Tail(reps))

\* C23: a customReplacements entry whose from is a string replaces every
\* occurrence of exactly that character sequence, whatever its characters.
C23_StringFromIsLiteral ==
    PatternReturned =>
        LET options == patternPlugin.options
            lines == CallLines
        IN patternCall.result =
            JoinLines([i \in 1..Len(lines) |->
                IF isTableRowText(lines[i])
                THEN LiteralReplacements(UnescapeEach(lines[i], options.unescapeChars),
                                         options.customReplacements)
                ELSE lines[i]])

----------------------------------------------------------------------------
(***************************************************************************)
(* The editor toggle (index.js): safeSerialize, the Markdown view and the  *)
(* ProseMirror view over one textarea, and switchTo.  A Markdown text is   *)
(* an opaque string here; parsing and serializing are not inverse to each  *)
(* other ("_b_" parses to an emphasis that serializes as "*b*").           *)
(***************************************************************************)
\* the documents the ProseMirror view can hold
EmptyDoc == Doc("", FALSE, TRUE, "")

EditorDocs ==
    { EmptyDoc,
      Doc("a", FALSE, TRUE, "a"),
      Doc("b", FALSE, TRUE, "b"),
      Doc("*b*", FALSE, TRUE, "b"),
      Doc("", TRUE, TRUE, "b"),      \* the serializer throws on it
      Doc("", TRUE, TRUE, "") }

\* plain objects handed to the exported safeSerialize
MockDocs == { Doc("a", FALSE, FALSE, ""), Doc("", TRUE, FALSE, "") }

\* the texts typed into the textarea
MarkdownTexts == {"", "a", "b", "*b*", "_b_"}

\* mdParser.parse(markdown)
ParseMarkdown(text) ==
    CASE text = "" -> EmptyDoc
      [] text = "a" -> Doc("a", FALSE, TRUE, "a")
      [] text = "b" -> Doc("b", FALSE, TRUE, "b")
      [] text \in {"*b*", "_b_"} -> Doc("*b*", FALSE, TRUE, "b")

\* serializer.serialize(doc)
SerializeDoc(doc) ==
    IF doc.throws THEN [threw |-> TRUE, text |-> ""]
    ELSE [threw |-> FALSE, text |-> doc.md]

\* safeSerialize without its try ... catch
safeSerializeUncaught(doc) ==
    LET out == SerializeDoc(doc)
    IN [stage |-> "done", doc |-> doc, propagated |-> out.threw,
        logged |-> FALSE, value |-> out.text]

\* safeSerialize(serializer, doc)
safeSerialize(doc) ==
    LET out == SerializeDoc(doc)
    IN IF out.threw
       THEN [stage |-> "done", doc |-> doc, propagated |-> FALSE, logged |-> TRUE,
             value |-> IF doc.hasText /\ doc.textContent # "" THEN doc.textContent ELSE ""]
       ELSE [stage |-> "done", doc |-> doc, propagated |-> FALSE, logged |-> FALSE,
             value |-> out.text]

\* new MarkdownView(target, content) on the textarea: the value is assigned
\* only when content is neither null nor ""
MarkdownViewValue(value, content) == IF content # "" THEN content ELSE value

\* initialMarkdown of new ProseMirrorView(target, content) on the textarea
InitialMarkdown(value, content) == IF content # "" THEN content ELSE value

\* wireEditorToggle(element, initialMode) on a textarea that holds value
WireEditorToggle(initialMode, value) ==
    /\ edMode = "none"
    /\ edMode' = initialMode
    /\ IF initialMode = "markdown"
       THEN /\ textarea' = MarkdownViewValue(value, value)
            /\ edDoc' = NoDoc
            /\ UNCHANGED safeCall
       ELSE LET doc == ParseMarkdown(InitialMarkdown(value, value))
                md == safeSerialize(doc)
            IN /\ edDoc' = doc
               /\ textarea' = md.value          \* _syncToMirror(true)
               /\ safeCall' = md
    /\ syncScheduled' = FALSE
    /\ UNCHANGED lastSwitch
    /\ UNCHANGED <<baseVars, patVars, parseVars, loopVars>>

\* the user types into the visible textarea (Markdown mode)
TypeInTextarea(text) ==
    /\ edMode = "markdown"
    /\ textarea' = text
    /\ UNCHANGED <<edMode, edDoc, syncScheduled, lastSwitch, safeCall>>
    /\ UNCHANGED <<baseVars, patVars, parseVars, loopVars>>

\* dispatchTransaction: the new state is applied and _scheduleSync() called
DispatchTransaction(doc) ==
    /\ edMode = "prosemirror"
    /\ edDoc' = doc
    /\ syncScheduled' = TRUE
    /\ UNCHANGED <<edMode, textarea, lastSwitch, safeCall>>
    /\ UNCHANGED <<baseVars, patVars, parseVars, loopVars>>

\* the animation frame fires: run() of _syncToMirror
AnimationFrame ==
    /\ edMode = "prosemirror"
    /\ syncScheduled
    /\ LET md == safeSerialize(edDoc)
       IN /\ textarea' = md.value
          /\ safeCall' = md
    /\ syncScheduled' = FALSE
    /\ UNCHANGED <<edMode, edDoc, lastSwitch>>
    /\ UNCHANGED <<baseVars, patVars, parseVars, loopVars>>

\* the form is submitted: _syncToMirror(true) cancels the frame and runs
SubmitForm ==
    /\ edMode = "prosemirror"
    /\ LET md == safeSerialize(edDoc)
       IN /\ textarea' = md.value
          /\ safeCall' = md
    /\ syncScheduled' = FALSE
    /\ UNCHANGED <<edMode, edDoc, lastSwitch>>
    /\ UNCHANGED <<baseVars, patVars, parseVars, loopVars>>

\* switchTo(nextMode): content = view.content; view.destroy() (which cancels
\* a scheduled sync without running it); view = createView(nextMode, element,
\* content)
SwitchTo(nextMode) ==
    /\ edMode # "none"
    /\ IF nextMode = edMode THEN UNCHANGED editVars
       ELSE IF nextMode = "markdown"
       THEN LET md == safeSerialize(edDoc)          \* get content()
                shown == MarkdownViewValue(textarea, md.value)
            IN /\ textarea' = shown
               /\ edDoc' = NoDoc
               /\ safeCall' = md
               /\ lastSwitch' = [stage |-> "done", to |-> nextMode,
                                 pending |-> syncScheduled,
                                 content |-> md.value, shown |-> shown]
       ELSE LET content == textarea
                doc == ParseMarkdown(InitialMarkdown(textarea, content))
                md == safeSerialize(doc)            \* _syncToMirror(true)
            IN /\ edDoc' = doc
               /\ textarea' = md.value
               /\ safeCall' = md
               /\ lastSwitch' = [stage |-> "done", to |-> nextMode,
                                 pending |-> FALSE,
                                 content |-> content, shown |-> md.value]
    /\ IF nextMode = edMode THEN TRUE
       ELSE edMode' = nextMode /\ syncScheduled' = FALSE
    /\ UNCHANGED <<baseVars, patVars, parseVars, loopVars>>

\* safeSerialize called directly (it is exported) with any document
CallSafeSerialize(doc) ==
    /\ safeCall' = safeSerialize(doc)
    /\ UNCHANGED <<edMode, textarea, edDoc, syncScheduled, lastSwitch>>
    /\ UNCHANGED <<baseVars, patVars, parseVars, loopVars>>

EditorNext ==
    \/ \E mode \in {"markdown", "prosemirror"}, value \in MarkdownTexts :
            WireEditorToggle(mode, value)
    \/ \E text \in MarkdownTexts : TypeInTextarea(text)
    \/ \E doc \in EditorDocs : DispatchTransaction(doc)
    \/ AnimationFrame
    \/ SubmitForm
    \/ \E nextMode \in {"markdown", "prosemirror"} : SwitchTo(nextMode)
    \/ \E doc \in EditorDocs \cup MockDocs : CallSafeSerialize(doc)

SpecEditor == Init /\ [][EditorNext]_vars

----------------------------------------------------------------------------
(***************************************************************************)
(* Claims about the editor toggle.                                         *)
(***************************************************************************)
\* C24: safeSerialize never propagates an exception of serializer.serialize:
\* it logs it and returns the document's plain-text content, or the empty
\* string when there is none; when serialize succeeds it returns exactly
\* serialize's result.
C24_SafeSerializeNeverThrows ==
    safeCall.stage = "done" =>
        /\ ~safeCall.propagated
        /\ IF safeCall.doc.throws
           THEN /\ safeCall.logged
                /\ \/ safeCall.doc.hasText /\ safeCall.doc.textContent # ""
                            /\ safeCall.value = safeCall.doc.textContent
                   \/ ~(safeCall.doc.hasText /\ safeCall.doc.textContent # "")
                            /\ safeCall.value = ""
           ELSE safeCall.value = SerializeDoc(safeCall.doc).text

\* the serializer threw during a mirror sync and the mirror got the plain text
C24_Witness ==
    /\ safeCall.stage = "done"
    /\ safeCall.doc.throws
    /\ safeCall.value = "b"
    /\ edMode = "prosemirror"
    /\ textarea = "b"

\* C25: after a switch from ProseMirror mode to Markdown mode the textarea of
\* the new Markdown view holds exactly the Markdown the ProseMirror view's
\* content getter returned when the switch began, whatever edits and pending
\* mirror syncs preceded the switch.
C25_ContentPreservedAcrossSwitch ==
    (lastSwitch.stage = "done" /\ lastSwitch.to = "markdown") =>
        lastSwitch.shown = lastSwitch.content

----------------------------------------------------------------------------
(***************************************************************************)
(* Claim about two pattern plugins on one serializer.                      *)
(***************************************************************************)
\* the line transformation a pattern plugin was configured with
ConfiguredTransform(p, text) ==
    CASE p = "patternRows" -> patternSerialize(text, TableRowUnescapeChars, <<"~">>)
      [] p = "patternPipes" -> patternSerialize(text, <<"|">>, <<>>)
      [] p = "tildes" -> textProcessingSerialize(text, <<"~">>)

\* the enhanceSerializer calls of the history, one after the other, where
\* only the first pattern plugin installs its transformation
RECURSIVE FirstPatternOnly(_, _, _)
FirstPatternOnly(history, k, text) ==
    IF k > Len(history) THEN text
    ELSE IF history[k] \in PatternPluginNames
            /\ \E j \in 1..k - 1 : history[j] \in PatternPluginNames
         THEN FirstPatternOnly(history, k + 1, text)
         ELSE FirstPatternOnly(history, k + 1, ConfiguredTransform(history[k], text))

----------------------------------------------------------------------------
(***************************************************************************)
(* The two separator-row predicates on one line: isTableSeparatorRow of    *)
(* extensions/gfmCompliantEscaping.js (one regular expression) and of      *)
(* utils/patternUtils.js (strip the pipes, split, test every column).      *)
(***************************************************************************)
SeparatorChars == {"|", "-", ":", " ", "A"}

\* the line grows by one character
EmitSeparatorChar(c) ==
    /\ stage = "input"
    /\ Len(markdown) < MaxSeparatorLen
    /\ markdown' = Append(markdown, c)
    /\ UNCHANGED <<unescapeChars, processed, reprocessed, stage>>
    /\ UNCHANGED <<serVars, htmlVars, validVars, moreVars>>

\* both predicates called with the line
CheckSeparatorRow ==
    /\ stage = "input"
    /\ stage' = "once"
    /\ validation' = [stage |-> "separators",
                      line |-> markdown,
                      regex |-> isTableSeparatorRow(markdown),
                      columns |-> isTableSeparatorRowOfColumns(markdown)]
    /\ UNCHANGED <<markdown, unescapeChars, processed, reprocessed>>
    /\ UNCHANGED <<serVars, htmlVars, moreVars>>

SeparatorNext == (\E c \in SeparatorChars : EmitSeparatorChar(c)) \/ CheckSeparatorRow

SpecSeparator == Init /\ [][SeparatorNext]_vars

\* C27: for every line whose trimmed form starts with a pipe, the regex
\* predicate of gfmCompliantEscaping.js and the strip-and-split predicate of
\* patternUtils.js return the same result.
C27_SeparatorPredicatesAgree ==
    (validation.stage = "separators" /\ StartsWithPipe(Trim(validation.line))) =>
        validation.regex = validation.columns

\* a separator row with an alignment colon, inner spaces and no closing pipe
C27_Witness ==
    /\ validation.stage = "separators"
    /\ validation.line = <<" ", "|", ":", "-", " ", "|", "-">>
    /\ validation.regex
    /\ validation.columns

----------------------------------------------------------------------------
(***************************************************************************)
(* The block parser of the node-level test utilities (parseMarkdownNodes): *)
(* the line patterns, getLineType, and one action per iteration of the     *)
(* main loop.  Line indices are 0-based as in the source.                  *)
(***************************************************************************)
\* \w
IsWordChar(c) == IsLetter(c) \/ c \in Digits \/ c = "_"

\* the length of the run of characters of the set cs at the start of s
RECURSIVE LeadingRun(_, _)
LeadingRun(s, cs) ==
    IF s # <<>> /\ Head(s) \in cs THEN 1 + LeadingRun(Tail(s), cs) ELSE 0

\* PATTERNS.blank /^\s*$/
MatchesBlank(line) == \A k \in 1..Len(line) : IsSpace(line[k])

\* PATTERNS.heading /^#{1,6}\s+/
MatchesHeading(line) ==
    \E h \in 1..6 :
        /\ h < Len(line)
        /\ \A k \in 1..h : line[k] = "#"
        /\ IsSpace(line[h + 1])

\* group 1 of PATTERNS.fencedCodeStart, or <<>> when the line does not match:
\* a run of three or more fence characters, then word characters up to the
\* end of the line.  The pattern has two alternatives, the tilde and the
\* backquote; the documents parsed here are written with tildes.
FenceOf(line) ==
    LET run == LeadingRun(line, {"~"})
    IN IF run >= 3 /\ \A k \in run + 1..Len(line) : IsWordChar(line[k])
       THEN SubSeq(line, 1, run)
       ELSE <<>>

MatchesFencedCodeStart(line) == FenceOf(line) # <<>>

\* PATTERNS.horizontalRule /^(?:[-*_]\s*){3,}$/
MatchesHorizontalRule(t) ==
    /\ t # <<>>
    /\ t[1] \in {"-", "*", "_"}
    /\ \A k \in 1..Len(t) : t[k] \in {"-", "*", "_"} \/ IsSpace(t[k])
    /\ Cardinality({k \in 1..Len(t) : t[k] \in {"-", "*", "_"}}) >= 3

\* PATTERNS.blockquote /^>\s?/
MatchesBlockquote(line) == line # <<>> /\ line[1] = ">"

\* PATTERNS.unorderedListItem /^[\s]*[-*+]\s+/
MatchesUnorderedListItem(line) ==
    LET k == LeadingRun(line, {" ", "\t", "\n", "\r"}) + 1
    IN /\ k + 1 <= Len(line)
       /\ line[k] \in {"-", "*", "+"}
       /\ IsSpace(line[k + 1])

\* PATTERNS.orderedListItem /^[\s]*\d+[.)]\s+/
MatchesOrderedListItem(line) ==
    LET k == LeadingRun(line, {" ", "\t", "\n", "\r"}) + 1
        d == LeadingRun(SubSeq(line, k, Len(line)), Digits)
    IN /\ d >= 1
       /\ k + d + 1 <= Len(line)
       /\ line[k + d] \in {".", ")"}
       /\ IsSpace(line[k + d + 1])

\* PATTERNS.tableRow /^\|.*$/
MatchesTableRow(t) ==
    /\ t # <<>>
    /\ t[1] = "|"
    /\ \A k \in 2..Len(t) : ~IsLineTerminator(t[k])

\* PATTERNS.htmlBlockStart /^<(?:!--|!DOCTYPE|\/?\w+)/i
MatchesHtmlBlockStart(t) ==
    \/ StartsWithAt(t, 1, <<"<", "!", "-", "-">>)
    \/ StartsWithAt(ToLowerText(t), 1, <<"<", "!", "d", "o", "c", "t", "y", "p", "e">>)
    \/ Len(t) >= 2 /\ t[1] = "<" /\ IsWordChar(t[2])
    \/ Len(t) >= 3 /\ t[1] = "<" /\ t[2] = "/" /\ IsWordChar(t[3])

\* PATTERNS.indentedCode /^(?: {4}|\t)/
MatchesIndentedCode(line) ==
    StartsWithAt(line, 1, <<" ", " ", " ", " ">>) \/ StartsWithAt(line, 1, <<"\t">>)

getLineType(line) ==
    IF MatchesBlank(line) THEN "blank"
    ELSE IF MatchesHeading(line) THEN "heading"
    ELSE IF MatchesFencedCodeStart(line) THEN "fenced_code"
    ELSE IF MatchesHorizontalRule(Trim(line)) THEN "horizontal_rule"
    ELSE IF MatchesBlockquote(line) THEN "blockquote"
    ELSE IF MatchesUnorderedListItem(line) THEN "unordered_list"
    ELSE IF MatchesOrderedListItem(line) THEN "ordered_list"
    ELSE IF MatchesTableRow(Trim(line)) THEN "table"
    ELSE IF MatchesHtmlBlockStart(Trim(line)) THEN "html_block"
    ELSE IF MatchesIndentedCode(line) THEN "indented_code"
    ELSE "paragraph"

\* /^[\s]*:?-+:?[\s]*$/.test(col)
MatchesSeparatorColumn(col) ==
    Len(col) + 1 \in ReSpaces(col, ReOpt(col, ":", RePlus(col, "-", ReOpt(col, ":", ReSpaces(col, {1})))))

\* isTableSeparator(line) of the parser
isTableSeparator(line) ==
    /\ StartsWithPipe(Trim(line))
    /\ LET columns == SplitOn(RowContent(Trim(line)), "|")
       IN \A k \in 1..Len(columns) : MatchesSeparatorColumn(columns[k])

\* isListContinuation(line): /^(?:  |\t)/ and not blank
isListContinuation(line) ==
    /\ StartsWithAt(line, 1, <<" ", " ">>) \/ StartsWithAt(line, 1, <<"\t">>)
    /\ ~MatchesBlank(line)

\* lines.slice(from, to).join('\n')
SliceText(lines, from, to) == JoinLines(SubSeq(lines, from + 1, to))

createNode(type, content, startLine, endLine, meta) ==
    [type |-> type, content |-> content, startLine |-> startLine, endLine |-> endLine,
     lineCount |-> endLine - startLine + 1, meta |-> meta]

NoMeta == [none |-> TRUE]

\* the first index j >= i whose line satisfies Stop, or lines.length
FirstIndexFrom(lines, i, Stop(_)) ==
    LET hits == {j \in i..Len(lines) - 1 : Stop(LineAt(lines, j))}
    IN IF hits = {} THEN Len(lines) ELSE CHOOSE j \in hits : \A h \in hits : j <= h

\* the fenced handler resuming at the closing fence instead of after it
FencedResumeAtFence(j) == j

\* i++ after the node of a fenced code block is pushed
FencedResume(j) == j + 1

\* the fenced code handler
ParseFencedCode(lines, i) ==
    LET fence == FenceOf(LineAt(lines, i))
        ClosesFence(l) == StartsWithAt(l, 1, fence)
        j == FirstIndexFrom(lines, i + 1, ClosesFence)
        endLine == IF j < Len(lines) THEN j ELSE Len(lines) - 1
    IN [next |-> FencedResume(j),
        push |-> <<createNode("code_block", SliceText(lines, i, endLine + 1), i, endLine,
                     [language |-> SubSeq(LineAt(lines, i), Len(fence) + 1, Len(LineAt(lines, i))),
                      fenced |-> TRUE])>>]

\* the blockquote handler
ParseBlockquote(lines, i) ==
    LET EndsQuote(l) ==
            ~(\/ MatchesBlockquote(l)
              \/ /\ ~MatchesBlank(l)
                 /\ getLineType(l) \notin {"heading", "horizontal_rule", "fenced_code"})
        j == FirstIndexFrom(lines, i, EndsQuote)
    IN [next |-> j,
        push |-> <<createNode("blockquote", SliceText(lines, i, j), i, j - 1, NoMeta)>>]

ListItemMatches(kind, line) ==
    IF kind = "unordered_list" THEN MatchesUnorderedListItem(line)
    ELSE MatchesOrderedListItem(line)

\* the inner while loop of the two list handlers: the index it stops at
RECURSIVE ListEnd(_, _, _)
ListEnd(lines, i, kind) ==
    IF i >= Len(lines) THEN i
    ELSE IF MatchesBlank(LineAt(lines, i))
    THEN LET NotBlank(l) == ~MatchesBlank(l)
             nextNonBlank == FirstIndexFrom(lines, i + 1, NotBlank)
         IN IF /\ nextNonBlank < Len(lines)
               /\ \/ ListItemMatches(kind, LineAt(lines, nextNonBlank))
                  \/ isListContinuation(LineAt(lines, nextNonBlank))
            THEN ListEnd(lines, i + 1, kind)
            ELSE i
    ELSE IF ~ListItemMatches(kind, LineAt(lines, i)) /\ ~isListContinuation(LineAt(lines, i))
    THEN i
    ELSE ListEnd(lines, i + 1, kind)

\* the unordered and the ordered list handler
ParseList(lines, i, kind) ==
    LET j == ListEnd(lines, i, kind)
    IN [next |-> j,
        push |-> <<createNode(kind, SliceText(lines, i, j), i, j - 1, NoMeta)>>]

\* the table handler
ParseTable(lines, i) ==
    LET EndsTable(l) == ~MatchesTableRow(Trim(l))
        j == FirstIndexFrom(lines, i, EndsTable)
        tableLines == SubSeq(lines, i + 1, j)
    IN [next |-> j,
        push |-> <<createNode("table", JoinLines(tableLines), i, j - 1,
                     [valid |-> Len(tableLines) >= 2 /\ isTableSeparator(tableLines[2]),
                      rowCount |-> Len(tableLines)])>>]

\* the index the HTML handler stops at
HtmlEnd(lines, i) ==
    LET firstLine == Trim(LineAt(lines, i))
        lower == ToLowerText(firstLine)
        tag == IF StartsWithAt(lower, 1, <<"<", "s", "c", "r", "i", "p", "t">>)
                    THEN <<"s", "c", "r", "i", "p", "t">>
               ELSE IF StartsWithAt(lower, 1, <<"<", "p", "r", "e">>) THEN <<"p", "r", "e">>
               ELSE IF StartsWithAt(lower, 1, <<"<", "s", "t", "y", "l", "e">>)
                    THEN <<"s", "t", "y", "l", "e">>
               ELSE <<>>
        EndsComment(l) == IncludesText(l, <<"-", "-", ">">>)
        ClosesTag(l) == IncludesText(ToLowerText(l), <<"<", "/">> \o tag \o <<">">>)
    IN IF StartsWithAt(firstLine, 1, <<"<", "!", "-", "-">>)
       THEN LET j == FirstIndexFrom(lines, i, EndsComment)
            IN IF j < Len(lines) THEN j + 1 ELSE j
       ELSE IF tag # <<>>
       THEN LET j == FirstIndexFrom(lines, i, ClosesTag)
            IN IF j < Len(lines) THEN j + 1 ELSE j
       ELSE FirstIndexFrom(lines, i, MatchesBlank)

\* the HTML block handler
ParseHtmlBlock(lines, i) ==
    LET j == HtmlEnd(lines, i)
    IN [next |-> j,
        push |-> <<createNode("html_block", SliceText(lines, i, j), i, j - 1, NoMeta)>>]

\* while (endLine > startLine && PATTERNS.blank.test(lines[endLine])) endLine--
RECURSIVE TrimTrailingBlank(_, _, _)
TrimTrailingBlank(lines, startLine, endLine) ==
    IF endLine > startLine /\ MatchesBlank(LineAt(lines, endLine))
    THEN TrimTrailingBlank(lines, startLine, endLine - 1)
    ELSE endLine

\* the indented code handler
ParseIndentedCode(lines, i) ==
    LET EndsCode(l) == ~(MatchesIndentedCode(l) \/ MatchesBlank(l))
        j == FirstIndexFrom(lines, i, EndsCode)
        endLine == TrimTrailingBlank(lines, i, j - 1)
    IN [next |-> j,
        push |-> <<createNode("code_block", SliceText(lines, i, endLine + 1), i, endLine,
                     [fenced |-> FALSE])>>]

\* the paragraph handler
ParseParagraph(lines, i) ==
    LET EndsParagraph(l) == getLineType(l) # "paragraph"
        j == FirstIndexFrom(lines, i, EndsParagraph)
    IN [next |-> j,
        push |-> <<createNode("paragraph", SliceText(lines, i, j), i, j - 1, NoMeta)>>]

\* one iteration of the main loop at index i: the index to go on from and
\* the node pushed, if any
ParseNodeAt(lines, i) ==
    LET line == LineAt(lines, i)
        lineType == getLineType(line)
    IN CASE lineType = "blank" -> [next |-> i + 1, push |-> <<>>]
         [] lineType = "fenced_code" -> ParseFencedCode(lines, i)
         [] lineType = "heading" ->
                [next |-> i + 1,
                 push |-> <<createNode("heading", line, i, i,
                                       [level |-> LeadingRun(line, {"#"})])>>]
         [] lineType = "horizontal_rule" ->
                [next |-> i + 1, push |-> <<createNode("horizontal_rule", line, i, i, NoMeta)>>]
         [] lineType = "blockquote" -> ParseBlockquote(lines, i)
         [] lineType \in {"unordered_list", "ordered_list"} -> ParseList(lines, i, lineType)
         [] lineType = "table" -> ParseTable(lines, i)
         [] lineType = "html_block" -> ParseHtmlBlock(lines, i)
         [] lineType = "indented_code" -> ParseIndentedCode(lines, i)
         [] lineType = "paragraph" -> ParseParagraph(lines, i)

\* the lines of the documents parsed
ParseLines ==
    { <<>>,
      <<"#", " ", "h">>,
      <<"~", "~", "~">>,
      <<"-", "-", "-">>,
      <<">", "q">>,
      <<"-", " ", "a">>,
      <<"1", ".", " ", "b">>,
      <<" ", " ", "c">>,
      <<" ", " ", " ", " ", "d">>,
      <<"|", "a", "|", "b">>,
      <<"|", "-", "|">>,
      <<" ", "|", "-", "|", "-">>,
      <<"<", "!", "-", "-">>,
      <<"x", "-", "-", ">">>,
      <<"<", "p", "r", "e", ">">>,
      <<"<", "/", "P", "R", "E", ">">>,
      <<"t">> }

\* the markdown grows by one line
AppendParseLine(line) ==
    /\ parseStage = "input"
    /\ Len(parseLines) < MaxParseLines
    /\ parseLines' = Append(parseLines, line)
    /\ UNCHANGED <<parseI, nodes, parseStage>>
    /\ UNCHANGED <<baseVars, patVars, editVars, loopVars>>

\* parseMarkdownNodes(markdown): return [] for the empty string, else
\* const lines = markdown.split('\n'); const nodes = []; let i = 0
StartParse ==
    /\ parseStage = "input"
    /\ Len(parseLines) >= 1
    /\ parseStage' = IF parseLines = << <<>> >> THEN "done" ELSE "parsing"
    /\ parseI' = 0
    /\ nodes' = <<>>
    /\ UNCHANGED parseLines
    /\ UNCHANGED <<baseVars, patVars, editVars, loopVars>>

\* one iteration of while (i < lines.length)
ParseStep ==
    /\ parseStage = "parsing"
    /\ parseI < Len(parseLines)
    /\ LET step == ParseNodeAt(parseLines, parseI)
       IN /\ parseI' = step.next
          /\ nodes' = nodes \o step.push
    /\ UNCHANGED <<parseLines, parseStage>>
    /\ UNCHANGED <<baseVars, patVars, editVars, loopVars>>

\* the loop condition fails: return nodes
ReturnNodes ==
    /\ parseStage = "parsing"
    /\ parseI >= Len(parseLines)
    /\ parseStage' = "done"
    /\ UNCHANGED <<parseLines, parseI, nodes>>
    /\ UNCHANGED <<baseVars, patVars, editVars, loopVars>>

ParseNext ==
    \/ \E line \in ParseLines : AppendParseLine(line)
    \/ StartParse
    \/ ParseStep
    \/ ReturnNodes

SpecParse == Init /\ [][ParseNext]_vars

----------------------------------------------------------------------------
(***************************************************************************)
(* Claims about the block parser.                                          *)
(***************************************************************************)
\* C28: the valid flag parseMarkdownNodes puts on a TABLE node equals
\* validateTable(node.content).isValid.
C28_ValidFlagIsValidateTable ==
    \A k \in 1..Len(nodes) :
        nodes[k].type = "table" =>
            nodes[k].meta.valid = validateTable(nodes[k].content).isValid

\* the nodes pushed so far: in line order, inside the document, disjoint
NodesOrdered ==
    /\ \A k \in 1..Len(nodes) :
            /\ 0 <= nodes[k].startLine
            /\ nodes[k].startLine <= nodes[k].endLine
            /\ nodes[k].endLine <= Len(parseLines) - 1
    /\ \A k \in 1..Len(nodes) - 1 : nodes[k].endLine < nodes[k + 1].startLine

\* every non-blank line the loop has passed lies in exactly one node's range
PassedLinesCovered ==
    \A j \in 0..Len(parseLines) - 1 :
        (j < parseI /\ ~MatchesBlank(LineAt(parseLines, j))) =>
            Cardinality({k \in 1..Len(nodes) :
                            nodes[k].startLine <= j /\ j <= nodes[k].endLine}) = 1

\* C29: parseMarkdownNodes terminates (every iteration of its loop moves the
\* index forward, and the loop is left once the index has reached the number
\* of lines), and its nodes come in increasing line order with
\* startLine <= endLine <= last line index, each node's endLine strictly
\* below the next node's startLine, and every non-blank input line inside
\* exactly one node's range.
C29_ParserTerminatesWithDisjointCover ==
    /\ [](parseStage \in {"parsing", "done"} => NodesOrdered /\ PassedLinesCovered)
    /\ [](parseStage = "done" => parseI >= Len(parseLines) \/ parseLines = << <<>> >>)
    /\ [][parseStage = "parsing" =>
            \/ parseI' > parseI /\ parseStage' = "parsing"
            \/ parseI >= Len(parseLines) /\ parseStage' = "done"]_vars

\* a fenced block closed on the last line after a paragraph and a blank line
C29_Witness ==
    /\ parseStage = "done"
    /\ \E k \in 1..Len(nodes) : nodes[k].type = "code_block" /\ nodes[k].endLine > nodes[k].startLine
    /\ Len(nodes) >= 1
    /\ \E j \in 0..Len(parseLines) - 1 : MatchesBlank(LineAt(parseLines, j))

----------------------------------------------------------------------------
(***************************************************************************)
(* The serialize wrapper of createTableRowTextProcessingPlugin step by     *)
(* step: the two replace calls before the loop, then one action per        *)
(* iteration of the do ... while loop.                                     *)
(***************************************************************************)
\* the pieces of the texts originalSerialize returns
CollapseFragments ==
    { <<"|", "a", "|">>,
      <<"|", "a", "\\">>,
      <<"b", "|">>,
      <<"\n">>,
      <<" ">> }

\* the loop left after its first iteration whatever the result
LoopDoneAlways(result, prevResult) == TRUE

\* the loop is left when result !== prevResult fails
LoopDone(result, prevResult) == result = prevResult

EmitCollapseFragment(f) ==
    /\ collapseStage = "input"
    /\ Len(collapseRaw) < MaxCollapseParts
    /\ collapseRaw' = Append(collapseRaw, f)
    /\ UNCHANGED <<collapseResult, collapsePrev, collapseStage>>
    /\ UNCHANGED <<baseVars, patVars, editVars, parseVars>>

\* the wrapper up to the loop: the soft-break replace and the first
\* blank-line replace
StartCollapse ==
    /\ collapseStage = "input"
    /\ collapseResult' = CollapseFrom(SoftBreaksFrom(Flatten(collapseRaw), 1), 1)
    /\ collapseStage' = "looping"
    /\ UNCHANGED <<collapseRaw, collapsePrev>>
    /\ UNCHANGED <<baseVars, patVars, editVars, parseVars>>

\* one iteration of do { prevResult = result; result = result.replace(...) }
\* while (result !== prevResult), and the return when the loop is left
CollapseIteration ==
    /\ collapseStage = "looping"
    /\ collapsePrev' = collapseResult
    /\ collapseResult' = CollapseFrom(collapseResult, 1)
    /\ collapseStage' = IF LoopDone(collapseResult', collapsePrev') THEN "done" ELSE "looping"
    /\ UNCHANGED collapseRaw
    /\ UNCHANGED <<baseVars, patVars, editVars, parseVars>>

CollapseNext ==
    \/ \E f \in CollapseFragments : EmitCollapseFragment(f)
    \/ StartCollapse
    \/ CollapseIteration

SpecCollapse == Init /\ [][CollapseNext]_vars

----------------------------------------------------------------------------
(***************************************************************************)
(* Claim about the blank-line collapsing loop.                             *)
(***************************************************************************)
\* a pipe-delimited row: the line, trimmed, starts and ends with a pipe
IsPipeRow(line) ==
    LET t == Trim(line)
    IN Len(t) >= 2 /\ t[1] = "|" /\ t[Len(t)] = "|"

ResultLines == SplitLines(collapseResult)

\* C30 as stated: the loop terminates and the result has no two
\* pipe-delimited rows separated by one or more blank lines, a blank line
\* being one that holds nothing but whitespace.
C30_AsStated ==
    collapseStage = "done" =>
        ~\E k, m \in 1..Len(ResultLines) :
            /\ m - k >= 2
            /\ IsPipeRow(ResultLines[k])
            /\ IsPipeRow(ResultLines[m])
            /\ \A j \in k + 1..m - 1 : MatchesBlank(ResultLines[j])

\* C30: the collapsing loop terminates (every iteration that does not leave
\* the loop makes the text shorter), and its result has no two
\* pipe-delimited rows, the second one starting in the first column, that
\* are separated by one or more empty lines.
C30_NoRowsApartByEmptyLines ==
    /\ [](collapseStage = "done" =>
            ~\E k, m \in 1..Len(ResultLines) :
                /\ m - k >= 2
                /\ IsPipeRow(ResultLines[k])
                /\ IsPipeRow(ResultLines[m])
                /\ ResultLines[m][1] = "|"
                /\ \A j \in k + 1..m - 1 : ResultLines[j] = <<>>)
    /\ [][collapseStage = "looping" =>
            \/ collapseStage' = "done" /\ collapseResult' = collapseResult
            \/ collapseStage' = "looping" /\ Len(collapseResult') < Len(collapseResult)]_vars

\* four empty lines between two rows, all of them collapsed
C30_Witness ==
    /\ collapseStage = "done"
    /\ Flatten(collapseRaw) = <<"|", "a", "|", "\n", "\n", "\n", "\n", "|", "a", "|">>
    /\ collapseResult = <<"|", "a", "|", "\n", "|", "a", "|">>

====
